---- MODULE Spec2Model ----
(***************************************************************************)
(* Model of GestureRecognitionBlock (src/unnamed/part_001): the per-frame  *)
(* update() of the hand-gesture recogniser, its per-hand active-gesture    *)
(* maps, the heuristic detectors and the gesturestart / gestureupdate /    *)
(* gestureend events it dispatches.                                        *)
(*                                                                         *)
(* Lengths are integers in millimetres (0.03 m = 30); every derived number *)
(* (distance ratios, confidences) is an exact rational <<num, den>> with   *)
(* den > 0, kept in lowest terms.                                          *)
(***************************************************************************)
EXTENDS Integers, Sequences, FiniteSets, TLC

\* ------------------------------------------------------------------ bounds
\* The clock runs for MaxTicks of the shortest ticks: update() is called as
\* long as performance.now() stays within MaxTicks * 50 ms.
MaxTicks == 3
\* A subscriber calls update() from its handler down to this nesting depth.
MaxReentry == 1
\* The largest thumb-tip to index-tip distance the pinch detector is run on,
\* in millimetres.
MaxDistance == 61
\* The number of WebView objects constructed.
MaxViews == 3
\* The number of evaluations in which the detector calls are recorded.
MaxRounds == 2

\* ------------------------------------------------------- rational numbers
\* F(v), with the operand v evaluated once before F is applied to it.
Apply(F(_), v) == CHOOSE r \in {F(x) : x \in {v}} : TRUE
Apply2(F(_, _), v, w) == CHOOSE r \in {F(x, y) : x \in {v}, y \in {w}} : TRUE

Abs(x) == IF x < 0 THEN -x ELSE x

RECURSIVE GCD(_, _)
GCD(a, b) == IF b = 0 THEN a ELSE Apply(LAMBDA r : GCD(b, r), a % b)

\* The rational n / d in lowest terms, d # 0.
Ratio(n, d) ==
  IF n = 0 THEN <<0, 1>>
  ELSE Apply(LAMBDA g : IF d < 0 THEN <<(-n) \div g, (-d) \div g>>
                        ELSE <<n \div g, d \div g>>,
             GCD(Abs(n), Abs(d)))

R(n) == <<n, 1>>
RAdd(a, b) ==
  Apply2(LAMBDA x, y : Ratio(x[1] * y[2] + y[1] * x[2], x[2] * y[2]), a, b)
RSub(a, b) ==
  Apply2(LAMBDA x, y : Ratio(x[1] * y[2] - y[1] * x[2], x[2] * y[2]), a, b)
RMul(a, b) == Apply2(LAMBDA x, y : Ratio(x[1] * y[1], x[2] * y[2]), a, b)
RDiv(a, b) == Apply2(LAMBDA x, y : Ratio(x[1] * y[2], x[2] * y[1]), a, b)
RLt(a, b) == Apply2(LAMBDA x, y : x[1] * y[2] < y[1] * x[2], a, b)
RGe(a, b) == ~RLt(a, b)
RGt(a, b) == RLt(b, a)
RMin(a, b) == Apply2(LAMBDA x, y : IF RLt(y, x) THEN y ELSE x, a, b)
RMax(a, b) == Apply2(LAMBDA x, y : IF RLt(x, y) THEN y ELSE x, a, b)

\* THREE.MathUtils.clamp(value, min, max) = max(min, min(max, value))
Clamp(value, lo, hi) == RMax(lo, RMin(hi, value))

RECURSIVE RSum(_)
RSum(s) == IF s = <<>> THEN R(0) ELSE RAdd(Head(s), RSum(Tail(s)))

\* ------------------------------------------------------ program constants
DEFAULT_PINCH_THRESHOLD == 30
DEFAULT_FIST_THRESHOLD == 45
DEFAULT_OPEN_PALM_THRESHOLD == 75
DEFAULT_POINT_THRESHOLD == 70
DEFAULT_SPREAD_THRESHOLD == 50

HandLabels == <<"left", "right">>
Hands == {"left", "right"}

\* The joints the pose source can report (the subset of HAND_JOINT_NAMES the
\* detectors read, and one joint no detector reads).
HAND_JOINT_NAMES ==
  <<"wrist", "thumb-metacarpal", "thumb-tip", "index-finger-tip",
    "middle-finger-tip", "ring-finger-tip", "pinky-finger-tip">>
JointNames == {HAND_JOINT_NAMES[i] : i \in DOMAIN HAND_JOINT_NAMES}

\* A joint the hand does not have this frame.
Missing == <<>>
\* The context of a hand that has no pose (buildHandContext returned null).
NoContext == <<>>
\* detail.data of an event or of a stored state that carries none.
NoData == <<>>

\* ------------------------------------------------------------ pose source
\* A position is <<x, y, z>> in millimetres.
RECURSIVE ISqrtBetween(_, _, _)
ISqrtBetween(n, lo, hi) ==
  IF lo >= hi THEN lo
  ELSE Apply(LAMBDA mid : IF mid * mid <= n THEN ISqrtBetween(n, mid, hi)
                          ELSE ISqrtBetween(n, lo, mid - 1),
             (lo + hi + 1) \div 2)

\* The largest integer whose square is at most n.
ISqrt(n) == Apply(LAMBDA m : ISqrtBetween(m, 0, m), n)

\* Vector3.distanceTo: the Euclidean distance (exact for the poses below,
\* whose joints lie on one line; otherwise rounded down to a millimetre).
DistanceTo(a, b) ==
  Apply2(LAMBDA p, q :
           R(ISqrt((p[1] - q[1]) * (p[1] - q[1]) + (p[2] - q[2]) * (p[2] - q[2])
                   + (p[3] - q[3]) * (p[3] - q[3]))),
         a, b)

\* hand.joints of the hands the pose source delivers, by pose name: a
\* function from joint name to position, Missing for a joint the hand lacks.
Tips(t, i, m, r, p) ==
  [j \in JointNames |->
     CASE j = "wrist" -> <<0, 0, 0>>
       [] j = "thumb-metacarpal" -> <<0, 30, 0>>
       [] j = "thumb-tip" -> <<0, t, 0>>
       [] j = "index-finger-tip" -> <<0, i, 0>>
       [] j = "middle-finger-tip" -> <<0, m, 0>>
       [] j = "ring-finger-tip" -> <<0, r, 0>>
       [] j = "pinky-finger-tip" -> <<0, p, 0>>]

Without(joints, gone) ==
  [j \in JointNames |-> IF j \in gone THEN Missing ELSE joints[j]]

\* "untracked" is a hand whose joints object is absent (hand?.joints falsy).
PoseNames == {"open", "pinch", "fist", "nowrist", "empty", "untracked"}

HandJoints(pose) ==
  CASE pose = "open" -> Tips(100, 150, 160, 150, 130)
    [] pose = "pinch" -> Tips(130, 150, 160, 150, 130)
    [] pose = "fist" -> Tips(20, 10, 10, 10, 10)
    [] pose = "nowrist" -> Without(Tips(100, 150, 160, 150, 130), {"wrist"})
    [] pose = "empty" -> Without(Tips(0, 0, 0, 0, 0), JointNames)
    [] OTHER -> Without(Tips(0, 0, 0, 0, 0), JointNames)

HasJoints(pose) == pose # "untracked"

\* ----------------------------------------------------------- hand context
\* buildHandContext(handedness, handLabel): the joints of the hand that are
\* present, copied into the (cleared) pooled map of that hand; null when the
\* hand has no joints object or none of HAND_JOINT_NAMES is present.
BuildHandContext(pose) ==
  IF ~HasJoints(pose) THEN NoContext
  ELSE LET joints == [j \in JointNames |-> HandJoints(pose)[j]]
       IN  IF \A j \in JointNames : joints[j] = Missing THEN NoContext
           ELSE joints

\* GetJointPosition as it would be if a missing wrist were taken to be at the
\* origin.
GetJointPositionDefaultsWrist(context, jointName) ==
  IF jointName = "wrist" /\ context[jointName] = Missing THEN <<0, 0, 0>>
  ELSE context[jointName]

GetJointPosition(context, jointName) == context[jointName]

FingerTipNames ==
  <<"thumb-tip", "index-finger-tip", "middle-finger-tip", "ring-finger-tip",
    "pinky-finger-tip">>

\* getFingerTips(context): the names of the finger tips present, in order
\* (each tip has its own vector, so a name identifies the vector).
RECURSIVE TipsFrom(_, _, _)
TipsFrom(context, i, excluded) ==
  IF i > Len(FingerTipNames) THEN <<>>
  ELSE LET name == FingerTipNames[i]
           rest == TipsFrom(context, i + 1, excluded)
       IN  IF GetJointPosition(context, name) # Missing /\ name \notin excluded
           THEN <<name>> \o rest ELSE rest

GetFingerTips(context) == TipsFrom(context, 1, {})

\* distances.reduce((sum, val) => sum + val, 0) / distances.length over the
\* distances of the named tips to the wrist.
AverageDistance(context, tips, wrist) ==
  RDiv(RSum([k \in 1..Len(tips) |-> DistanceTo(context[tips[k]], wrist)]),
       R(Len(tips)))

\* ---------------------------------------------------------------- detectors
\* A detection result; NoResult is the detector returning undefined.
NoResult == [ok |-> FALSE, confidence |-> R(0), data |-> NoData]
Result(confidence, data) == [ok |-> TRUE, confidence |-> confidence, data |-> data]

\* ThresholdOr as it would be if the configured threshold were ignored.
ThresholdOrDefault(config, default) == default

\* config.threshold ?? default (a configured threshold is in millimetres).
ThresholdOr(config, default) ==
  IF config.hasThreshold THEN R(config.threshold) ELSE default

\* ComputePinch as it would be if the confidence fell to 0 at twice the
\* threshold instead of 1.5 times.
ComputePinchWideRamp(context, config) ==
  LET thumb == GetJointPosition(context, "thumb-tip")
      index == GetJointPosition(context, "index-finger-tip")
  IN  IF thumb = Missing \/ index = Missing THEN NoResult
      ELSE LET threshold == ThresholdOr(config, R(DEFAULT_PINCH_THRESHOLD))
               distance == DistanceTo(thumb, index)
               confidence ==
                 RSub(R(1), Clamp(RDiv(distance, RMul(threshold, R(2))),
                                  R(0), R(1)))
           IN  IF RGt(distance, threshold)
               THEN Result(RMul(confidence, <<1, 2>>), NoData)
               ELSE Result(Clamp(confidence, R(0), R(1)),
                           << <<"distance", distance>> >>)

\* ComputePinch as it would be if the half weight were applied within the
\* threshold instead of beyond it.
ComputePinchHalvesInside(context, config) ==
  LET thumb == GetJointPosition(context, "thumb-tip")
      index == GetJointPosition(context, "index-finger-tip")
  IN  IF thumb = Missing \/ index = Missing THEN NoResult
      ELSE LET threshold == ThresholdOr(config, R(DEFAULT_PINCH_THRESHOLD))
               distance == DistanceTo(thumb, index)
               confidence ==
                 RSub(R(1), Clamp(RDiv(distance, RMul(threshold, <<3, 2>>)),
                                  R(0), R(1)))
           IN  IF RGt(distance, threshold)
               THEN Result(Clamp(confidence, R(0), R(1)),
                           << <<"distance", distance>> >>)
               ELSE Result(RMul(confidence, <<1, 2>>), NoData)

ComputePinch(context, config) ==
  LET thumb == GetJointPosition(context, "thumb-tip")
      index == GetJointPosition(context, "index-finger-tip")
  IN  IF thumb = Missing \/ index = Missing THEN NoResult
      ELSE LET threshold == ThresholdOr(config, R(DEFAULT_PINCH_THRESHOLD))
               distance == DistanceTo(thumb, index)
               confidence ==
                 RSub(R(1), Clamp(RDiv(distance, RMul(threshold, <<3, 2>>)),
                                  R(0), R(1)))
           IN  IF RGt(distance, threshold)
               THEN Result(RMul(confidence, <<1, 2>>), NoData)
               ELSE Result(Clamp(confidence, R(0), R(1)),
                           << <<"distance", distance>> >>)

\* ComputeOpenPalm as it would be if the ramp fell with the distance instead
\* of rising.
ComputeOpenPalmFalling(context, config) ==
  LET wrist == GetJointPosition(context, "wrist")
      fingerTips == GetFingerTips(context)
  IN  IF wrist = Missing THEN NoResult
      ELSE IF Len(fingerTips) = 0 THEN NoResult
      ELSE LET averageDistance == AverageDistance(context, fingerTips, wrist)
               threshold == ThresholdOr(config, R(DEFAULT_OPEN_PALM_THRESHOLD))
               confidence ==
                 Clamp(RDiv(RSub(threshold, averageDistance),
                            RMul(threshold, <<3, 4>>)), R(0), R(1))
           IN  Result(confidence, << <<"averageDistance", averageDistance>> >>)

ComputeOpenPalm(context, config) ==
  LET wrist == GetJointPosition(context, "wrist")
      fingerTips == GetFingerTips(context)
  IN  IF wrist = Missing THEN NoResult
      ELSE IF Len(fingerTips) = 0 THEN NoResult
      ELSE LET averageDistance == AverageDistance(context, fingerTips, wrist)
               threshold == ThresholdOr(config, R(DEFAULT_OPEN_PALM_THRESHOLD))
               confidence ==
                 Clamp(RDiv(RSub(averageDistance, threshold),
                            RMul(threshold, <<3, 4>>)), R(0), R(1))
           IN  Result(confidence, << <<"averageDistance", averageDistance>> >>)

\* ComputeFist as it would be if the ramp rose with the distance instead of
\* falling.
ComputeFistRising(context, config) ==
  LET wrist == GetJointPosition(context, "wrist")
      fingerTips == GetFingerTips(context)
  IN  IF wrist = Missing THEN NoResult
      ELSE IF Len(fingerTips) = 0 THEN NoResult
      ELSE LET averageDistance == AverageDistance(context, fingerTips, wrist)
               threshold == ThresholdOr(config, R(DEFAULT_FIST_THRESHOLD))
               confidence ==
                 Clamp(RDiv(RSub(averageDistance, threshold), threshold),
                       R(0), R(1))
           IN  Result(confidence, << <<"averageDistance", averageDistance>> >>)

ComputeFist(context, config) ==
  LET wrist == GetJointPosition(context, "wrist")
      fingerTips == GetFingerTips(context)
  IN  IF wrist = Missing THEN NoResult
      ELSE IF Len(fingerTips) = 0 THEN NoResult
      ELSE LET averageDistance == AverageDistance(context, fingerTips, wrist)
               threshold == ThresholdOr(config, R(DEFAULT_FIST_THRESHOLD))
               confidence ==
                 Clamp(RDiv(RSub(threshold, averageDistance), threshold),
                       R(0), R(1))
           IN  Result(confidence, << <<"averageDistance", averageDistance>> >>)

ComputeThumbsUp(context, config) ==
  LET wrist == GetJointPosition(context, "wrist")
      thumb == GetJointPosition(context, "thumb-tip")
      fingerTips == TipsFrom(context, 1, {"thumb-tip"})
  IN  IF wrist = Missing \/ thumb = Missing \/ Len(fingerTips) = 0
      THEN NoResult
      ELSE LET thumbDistance == DistanceTo(thumb, wrist)
               thumbVertical == R(thumb[2] - wrist[2])
               averageOther == AverageDistance(context, fingerTips, wrist)
               extendedThreshold ==
                 ThresholdOr(config,
                             RMul(R(DEFAULT_OPEN_PALM_THRESHOLD), <<9, 10>>))
               curledThreshold == RMul(R(DEFAULT_FIST_THRESHOLD), <<11, 10>>)
               thumbExtendedScore ==
                 Clamp(RDiv(RSub(thumbDistance, extendedThreshold),
                            RMul(extendedThreshold, <<3, 5>>)), R(0), R(1))
               othersCurledScore ==
                 Clamp(RDiv(RSub(curledThreshold, averageOther),
                            curledThreshold), R(0), R(1))
               orientationScore == Clamp(RDiv(thumbVertical, R(60)), R(0), R(1))
               confidence ==
                 RAdd(RAdd(RMul(thumbExtendedScore, <<1, 2>>),
                           RMul(othersCurledScore, <<35, 100>>)),
                      RMul(orientationScore, <<15, 100>>))
           IN  Result(Clamp(confidence, R(0), R(1)),
                      << <<"thumbDistance", thumbDistance>>,
                         <<"averageOther", averageOther>>,
                         <<"thumbVertical", thumbVertical>> >>)

\* ComputePoint as it would be if both scores weighed the same.
ComputePointEvenBlend(context, config) ==
  LET wrist == GetJointPosition(context, "wrist")
      indexTip == GetJointPosition(context, "index-finger-tip")
      otherTips == TipsFrom(context, 1, {"index-finger-tip", "thumb-tip"})
  IN  IF wrist = Missing \/ indexTip = Missing THEN NoResult
      ELSE IF Len(otherTips) = 0 THEN NoResult
      ELSE LET indexDistance == DistanceTo(indexTip, wrist)
               averageOthers == AverageDistance(context, otherTips, wrist)
               extendedThreshold ==
                 ThresholdOr(config, R(DEFAULT_POINT_THRESHOLD))
               curledThreshold == RMul(R(DEFAULT_FIST_THRESHOLD), <<11, 10>>)
               indexScore ==
                 Clamp(RDiv(RSub(indexDistance, extendedThreshold),
                            RMul(extendedThreshold, <<3, 5>>)), R(0), R(1))
               othersScore ==
                 Clamp(RDiv(RSub(curledThreshold, averageOthers),
                            curledThreshold), R(0), R(1))
               confidence ==
                 RAdd(RMul(indexScore, <<1, 2>>), RMul(othersScore, <<1, 2>>))
           IN  Result(Clamp(confidence, R(0), R(1)),
                      << <<"indexDistance", indexDistance>>,
                         <<"averageOthers", averageOthers>> >>)

ComputePoint(context, config) ==
  LET wrist == GetJointPosition(context, "wrist")
      indexTip == GetJointPosition(context, "index-finger-tip")
      otherTips == TipsFrom(context, 1, {"index-finger-tip", "thumb-tip"})
  IN  IF wrist = Missing \/ indexTip = Missing THEN NoResult
      ELSE IF Len(otherTips) = 0 THEN NoResult
      ELSE LET indexDistance == DistanceTo(indexTip, wrist)
               averageOthers == AverageDistance(context, otherTips, wrist)
               extendedThreshold ==
                 ThresholdOr(config, R(DEFAULT_POINT_THRESHOLD))
               curledThreshold == RMul(R(DEFAULT_FIST_THRESHOLD), <<11, 10>>)
               indexScore ==
                 Clamp(RDiv(RSub(indexDistance, extendedThreshold),
                            RMul(extendedThreshold, <<3, 5>>)), R(0), R(1))
               othersScore ==
                 Clamp(RDiv(RSub(curledThreshold, averageOthers),
                            curledThreshold), R(0), R(1))
               confidence ==
                 RAdd(RMul(indexScore, <<7, 10>>), RMul(othersScore, <<3, 10>>))
           IN  Result(Clamp(confidence, R(0), R(1)),
                      << <<"indexDistance", indexDistance>>,
                         <<"averageOthers", averageOthers>> >>)

ComputeSpread(context, config) ==
  LET thumb == GetJointPosition(context, "thumb-tip")
      index == GetJointPosition(context, "index-finger-tip")
      middle == GetJointPosition(context, "middle-finger-tip")
      ring == GetJointPosition(context, "ring-finger-tip")
      pinky == GetJointPosition(context, "pinky-finger-tip")
  IN  IF thumb = Missing \/ index = Missing \/ middle = Missing
         \/ ring = Missing \/ pinky = Missing
      THEN NoResult
      ELSE LET distances ==
                 <<DistanceTo(thumb, index), DistanceTo(index, middle),
                   DistanceTo(middle, ring), DistanceTo(ring, pinky)>>
               average == RDiv(RSum(distances), R(Len(distances)))
               threshold == ThresholdOr(config, R(DEFAULT_SPREAD_THRESHOLD))
               confidence ==
                 Clamp(RDiv(RSub(average, threshold),
                            RMul(threshold, <<3, 5>>)), R(0), R(1))
           IN  Result(confidence, << <<"averageDistance", average>> >>)

\* registerDetectors(): the names that have a detector.
Detectors == {"pinch", "open-palm", "fist", "thumbs-up", "point", "spread"}

\* this.detectors.get(name)(context, config)
Detect(name, context, config) ==
  CASE name = "pinch" -> ComputePinch(context, config)
    [] name = "open-palm" -> ComputeOpenPalm(context, config)
    [] name = "fist" -> ComputeFist(context, config)
    [] name = "thumbs-up" -> ComputeThumbsUp(context, config)
    [] name = "point" -> ComputePoint(context, config)
    [] name = "spread" -> ComputeSpread(context, config)

\* ------------------------------------------------------------ configuration
\* Object.entries(options.gestures): the configured gesture names in the
\* order of the configuration object; "wave" has no registered detector.
GestureOrder == <<"pinch", "open-palm", "fist", "wave">>
GestureNames == {GestureOrder[i] : i \in DOMAIN GestureOrder}

GestureOn == [enabled |-> TRUE, hasThreshold |-> FALSE, threshold |-> 0]
GestureOff == [enabled |-> FALSE, hasThreshold |-> FALSE, threshold |-> 0]
GestureAt(t) == [enabled |-> TRUE, hasThreshold |-> TRUE, threshold |-> t]

\* The values options.gestures takes.
GesturesEnabled(on) ==
  [g \in GestureNames |-> IF g \in on THEN GestureOn ELSE GestureOff]
GestureConfigs ==
  { GesturesEnabled(GestureNames),
    [GesturesEnabled({"fist"}) EXCEPT !["pinch"] = GestureAt(15)],
    GesturesEnabled({}) }

Providers == {"webxr", "mediapipe"}
UpdateIntervals == {0, 100}
MinimumConfidences == {<<1, 2>>, <<3, 4>>}
\* The time between two calls of update(), in ms.
TickDeltas == {50, 100}

\* The hands the pose source delivers for the left and for the right hand.
LeftPoses == PoseNames
RightPoses == {"pinch", "untracked"}

\* The context of every pose and the detector results of every pose under
\* every gesture configuration, computed once: Contexts[pose] is
\* buildHandContext for the hand named by pose, Detections[pose][name][config]
\* is detector(context, config) on that context.
ConfigValues ==
  {gestures[g] : gestures \in GestureConfigs, g \in GestureNames}
Contexts == [pose \in PoseNames |-> BuildHandContext(pose)]
Detections ==
  [pose \in PoseNames |->
     [name \in Detectors |->
        [config \in ConfigValues |->
           IF Contexts[pose] = NoContext THEN NoResult
           ELSE Detect(name, Contexts[pose], config)]]]

\* ------------------------------------------------------------------- state
VARIABLES
  options,          \* this.options: enabled, provider, updateIntervalMs,
                    \* minimumConfidence, gestures
  hands,            \* this.user.hands as read by the last update(): valid is
                    \* hands?.isValid?.(), pose[h] names hands.hands[h]
  now,              \* performance.now()
  activeGestures,   \* this.activeGestures: per hand the entries of the Map,
                    \* in insertion order
  lastEvaluation,   \* this.lastEvaluation
  providerWarned,   \* this.providerWarned
  warnings,         \* the number of console.warn calls made so far
  subscriber,       \* the event type whose handler calls update() on the
                    \* block, "none" if no handler does
  bench,            \* a function of the block run on its own: what it was
                    \* given and what it returned (for computePinch its
                    \* configuration, the thumb-tip to index-tip distance of
                    \* the hand and the result, once measured)
  events,           \* the events dispatched by the last update(), in order
  outcome,          \* where the last update() returned
  openGestures,     \* the pairs of hand and name whose last dispatched event
                    \* is a gesturestart or a gestureupdate, each with the
                    \* confidence that event carried
  lifecycleBroken   \* some event was dispatched out of lifecycle order

vars ==
  <<options, hands, now, activeGestures, lastEvaluation, providerWarned,
    warnings, subscriber, bench, events, outcome, openGestures,
    lifecycleBroken>>

\* No detector is run on its own.
NoBench == [config |-> GestureOff, distance |-> 0, measured |-> FALSE,
            result |-> NoResult]

\* ------------------------------------------------------ active-gesture map
MapKeys(activeMap) == {activeMap[i].name : i \in DOMAIN activeMap}
MapHas(activeMap, name) == name \in MapKeys(activeMap)
MapGet(activeMap, name) ==
  activeMap[CHOOSE i \in DOMAIN activeMap : activeMap[i].name = name]

\* MapSet as it would be if a new key were never stored.
MapSetOnlyExisting(activeMap, name, confidence, data) ==
  [i \in DOMAIN activeMap |->
     IF activeMap[i].name = name
     THEN [name |-> name, confidence |-> confidence, data |-> data]
     ELSE activeMap[i]]

\* MapSet as it would be if the state of an existing key were left as it is.
MapSetKeepsOld(activeMap, name, confidence, data) ==
  IF name \in {activeMap[i].name : i \in DOMAIN activeMap} THEN activeMap
  ELSE Append(activeMap,
              [name |-> name, confidence |-> confidence, data |-> data])

\* Map.set on a new key appends the entry; previousState.confidence = ... on
\* an existing one changes it in place.
MapSet(activeMap, name, confidence, data) ==
  LET entry == [name |-> name, confidence |-> confidence, data |-> data]
  IN  IF MapHas(activeMap, name)
      THEN [i \in DOMAIN activeMap |->
              IF activeMap[i].name = name THEN entry ELSE activeMap[i]]
      ELSE Append(activeMap, entry)

RECURSIVE MapDelete(_, _)
MapDelete(activeMap, name) ==
  IF activeMap = <<>> THEN <<>>
  ELSE IF Head(activeMap).name = name THEN Tail(activeMap)
  ELSE <<Head(activeMap)>> \o MapDelete(Tail(activeMap), name)

\* ------------------------------------------------------------------ events
\* emitGesture(type, detail): the event handed to dispatchEvent.
EmitGesture(type, name, hand, confidence, data) ==
  [type |-> type, name |-> name, hand |-> hand, confidence |-> confidence,
   data |-> data]

\* GestureEnd as it would be if the event carried full confidence.
GestureEndAtOne(name, hand) == EmitGesture("gestureend", name, hand, R(1), NoData)

GestureEnd(name, hand) == EmitGesture("gestureend", name, hand, R(0), NoData)

\* -------------------------------------------------------------- evaluateHand
\* EndAll as it would be without activeMap.clear().
EndAllWithoutClear(activeMap, hand) ==
  [active |-> activeMap,
   events |-> [i \in DOMAIN activeMap |-> GestureEnd(activeMap[i].name, hand)]]

\* EndAll as it would be if the map were cleared without the gestureend loop.
EndAllSilently(activeMap, hand) == [active |-> <<>>, events |-> <<>>]

\* The hand-loss branch: a gestureend for every entry of the map, in
\* insertion order, then activeMap.clear().
EndAll(activeMap, hand) ==
  [active |-> <<>>,
   events |-> [i \in DOMAIN activeMap |-> GestureEnd(activeMap[i].name, hand)]]

\* ApplyResult as it would be if a detector that returns no result left an
\* active gesture as it is.
ApplyResultKeepsOnNoResult(st, gestureName, hand, result, minimumConfidence) ==
  IF ~result.ok THEN [st EXCEPT !.processed = st.processed \cup {gestureName}]
  ELSE IF RGe(result.confidence, minimumConfidence)
  THEN [active |->
          MapSet(st.active, gestureName,
                 Clamp(result.confidence, R(0), R(1)), result.data),
        events |->
          Append(st.events,
                 EmitGesture(IF MapHas(st.active, gestureName)
                             THEN "gestureupdate" ELSE "gesturestart",
                             gestureName, hand,
                             Clamp(result.confidence, R(0), R(1)),
                             result.data)),
        processed |-> st.processed \cup {gestureName}]
  ELSE IF MapHas(st.active, gestureName)
  THEN [active |-> MapDelete(st.active, gestureName),
        events |-> Append(st.events, GestureEnd(gestureName, hand)),
        processed |-> st.processed \cup {gestureName}]
  ELSE [st EXCEPT !.processed = st.processed \cup {gestureName}]

\* ApplyResult as it would be if a gesture that is not detected were ended
\* whether or not it has a previous state.
ApplyResultEndsInactive(st, gestureName, hand, result, minimumConfidence) ==
  IF result.ok /\ RGe(result.confidence, minimumConfidence)
  THEN [active |->
          MapSet(st.active, gestureName,
                 Clamp(result.confidence, R(0), R(1)), result.data),
        events |->
          Append(st.events,
                 EmitGesture(IF MapHas(st.active, gestureName)
                             THEN "gestureupdate" ELSE "gesturestart",
                             gestureName, hand,
                             Clamp(result.confidence, R(0), R(1)),
                             result.data)),
        processed |-> st.processed \cup {gestureName}]
  ELSE [active |-> MapDelete(st.active, gestureName),
        events |-> Append(st.events, GestureEnd(gestureName, hand)),
        processed |-> st.processed \cup {gestureName}]

\* The body of the loop over Object.entries(this.options.gestures) from
\* `const isActive = ...` on, for the detector's result; st holds the map, the
\* events dispatched so far and the processed set.
ApplyResult(st, gestureName, hand, result, minimumConfidence) ==
  IF result.ok /\ RGe(result.confidence, minimumConfidence)
  THEN [active |->
          MapSet(st.active, gestureName,
                 Clamp(result.confidence, R(0), R(1)), result.data),
        events |->
          Append(st.events,
                 EmitGesture(IF MapHas(st.active, gestureName)
                             THEN "gestureupdate" ELSE "gesturestart",
                             gestureName, hand,
                             Clamp(result.confidence, R(0), R(1)),
                             result.data)),
        processed |-> st.processed \cup {gestureName}]
  ELSE IF MapHas(st.active, gestureName)
  THEN [active |-> MapDelete(st.active, gestureName),
        events |-> Append(st.events, GestureEnd(gestureName, hand)),
        processed |-> st.processed \cup {gestureName}]
  ELSE [st EXCEPT !.processed = st.processed \cup {gestureName}]

\* EvaluateGesture as it would be if an enabled gesture without a detector
\* were taken as detected with full confidence.
EvaluateGestureWithoutDetector(st, gestureName, hand, pose, opts) ==
  IF ~opts.gestures[gestureName].enabled THEN st
  ELSE IF gestureName \notin Detectors
  THEN ApplyResult(st, gestureName, hand, Result(R(1), NoData),
                   opts.minimumConfidence)
  ELSE ApplyResult(st, gestureName, hand,
                   Detections[pose][gestureName][opts.gestures[gestureName]],
                   opts.minimumConfidence)

\* One iteration of the loop over Object.entries(this.options.gestures), on
\* the context built from the pose.
EvaluateGesture(st, gestureName, hand, pose, opts) ==
  IF ~opts.gestures[gestureName].enabled THEN st
  ELSE IF gestureName \notin Detectors THEN st
  ELSE ApplyResult(st, gestureName, hand,
                   Detections[pose][gestureName][opts.gestures[gestureName]],
                   opts.minimumConfidence)

\* EvaluateGestures as it would be if the loop ran over the configuration
\* from its last entry to its first.
RECURSIVE EvaluateGesturesBackwards(_, _, _, _, _)
EvaluateGesturesBackwards(st, i, hand, pose, opts) ==
  IF i > Len(GestureOrder) THEN st
  ELSE EvaluateGesturesBackwards(
         EvaluateGesture(st, GestureOrder[Len(GestureOrder) + 1 - i], hand,
                         pose, opts),
         i + 1, hand, pose, opts)

RECURSIVE EvaluateGestures(_, _, _, _, _)
EvaluateGestures(st, i, hand, pose, opts) ==
  IF i > Len(GestureOrder) THEN st
  ELSE EvaluateGestures(EvaluateGesture(st, GestureOrder[i], hand, pose, opts),
                        i + 1, hand, pose, opts)

\* The closing loop over Array.from(activeMap.keys()): entries whose name was
\* not processed are deleted, each with a gestureend. keys is the snapshot
\* of the entries taken before the loop.
RECURSIVE PurgeUnprocessed(_, _, _)
PurgeUnprocessed(st, keys, hand) ==
  IF keys = <<>> THEN [active |-> st.active, events |-> st.events]
  ELSE IF Head(keys).name \notin st.processed
  THEN PurgeUnprocessed(
         [st EXCEPT !.active = MapDelete(st.active, Head(keys).name),
                    !.events = Append(st.events,
                                      GestureEnd(Head(keys).name, hand))],
         Tail(keys), hand)
  ELSE PurgeUnprocessed(st, Tail(keys), hand)

\* Purge as it would be without the closing loop.
PurgeNothing(st, hand) == [active |-> st.active, events |-> st.events]

\* Purge as it would be if the closing loop ignored the processed set.
PurgeAll(st, hand) ==
  [active |-> <<>>,
   events |-> st.events
              \o [i \in DOMAIN st.active |-> GestureEnd(st.active[i].name, hand)]]

\* Purge as it would be if the closing loop deleted without a gestureend.
PurgeSilently(st, hand) ==
  [active |-> SelectSeq(st.active, LAMBDA e : e.name \in st.processed),
   events |-> st.events]

Purge(st, hand) == PurgeUnprocessed(st, st.active, hand)

\* EvaluateHand as it would be if every hand were labelled 'left'.
EvaluateHandLabelsLeft(hand, activeMap, pose, opts) ==
  IF Contexts[pose] = NoContext THEN EndAll(activeMap, "left")
  ELSE Purge(EvaluateGestures(
               [active |-> activeMap, events |-> <<>>, processed |-> {}],
               1, "left", pose, opts),
             "left")

\* evaluateHand(handedness) on the map activeMap of the hand, whose hand
\* object is the one named pose: the map afterwards and the events dispatched.
EvaluateHand(hand, activeMap, pose, opts) ==
  IF Contexts[pose] = NoContext THEN EndAll(activeMap, hand)
  ELSE Purge(EvaluateGestures(
               [active |-> activeMap, events |-> <<>>, processed |-> {}],
               1, hand, pose, opts),
             hand)

\* ------------------------------------------------------- lifecycle observer
\* What a subscriber that follows the events of each <<hand, name>> pair
\* sees: a gesturestart must find the pair closed, a gestureupdate or
\* gestureend must find it open. open holds, for every open pair, the
\* confidence its last gesturestart or gestureupdate carried.
OpenPairs(open) == {<<o.hand, o.name>> : o \in open}

RECURSIVE Observe(_, _)
Observe(obs, evs) ==
  IF evs = <<>> THEN obs
  ELSE LET e == Head(evs)
           isOpen == <<e.hand, e.name>> \in OpenPairs(obs.open)
           others == {o \in obs.open : o.hand # e.hand \/ o.name # e.name}
       IN  Observe(
             [open |-> IF e.type = "gestureend" THEN others
                       ELSE others \cup {[hand |-> e.hand, name |-> e.name,
                                          confidence |-> e.confidence]},
              broken |-> obs.broken
                         \/ (e.type = "gesturestart" /\ isOpen)
                         \/ (e.type # "gesturestart" /\ ~isOpen)],
             Tail(evs))

\* ------------------------------------------------------------------ actions
OptionValues ==
  [enabled : BOOLEAN, provider : Providers, updateIntervalMs : UpdateIntervals,
   minimumConfidence : MinimumConfidences, gestures : GestureConfigs]

Init ==
  /\ options \in OptionValues
  /\ hands = [valid |-> FALSE, pose |-> [h \in Hands |-> "untracked"]]
  /\ now = 0
  /\ activeGestures = [h \in Hands |-> <<>>]
  /\ lastEvaluation = 0
  /\ providerWarned = FALSE
  /\ warnings = 0
  /\ subscriber = "none"
  /\ bench = NoBench
  /\ events = <<>>
  /\ outcome = "init"
  /\ openGestures = {}
  /\ lifecycleBroken = FALSE

\* Every call of update() happens at a later time of the clock.
Frame(dt) ==
  /\ now + dt <= MaxTicks * 50
  /\ now' = now + dt
  /\ UNCHANGED <<options, subscriber, bench>>

Skip(why) ==
  /\ outcome' = why
  /\ events' = <<>>
  /\ UNCHANGED <<activeGestures, lastEvaluation, providerWarned, warnings,
                 openGestures, lifecycleBroken>>

\* WarnProvider as it would be without the providerWarned flag.
WarnProviderEveryTime(opts, warned) == opts.provider # "webxr"

\* if (provider !== 'webxr' && !this.providerWarned): the fallback warning is
\* due.
WarnProvider(opts, warned) == opts.provider # "webxr" /\ ~warned

\* UpdateDisabled as it would be if the fallback warning came before the
\* test of options.enabled.
UpdateDisabledWarns(dt) ==
  /\ ~options.enabled
  /\ Frame(dt)
  /\ outcome' = "disabled"
  /\ events' = <<>>
  /\ providerWarned' = (providerWarned \/ WarnProvider(options, providerWarned))
  /\ warnings' = IF WarnProvider(options, providerWarned)
                 THEN warnings + 1 ELSE warnings
  /\ UNCHANGED <<hands, activeGestures, lastEvaluation, openGestures,
                 lifecycleBroken>>

\* update() returning at `if (!this.options.enabled) return;`, before it
\* reads the hands.
UpdateDisabled(dt) ==
  /\ ~options.enabled
  /\ Frame(dt)
  /\ UNCHANGED hands
  /\ Skip("disabled")

\* update() returning at `if (!this.user.hands?.isValid?.()) return;`
UpdateInvalid(dt) ==
  /\ options.enabled
  /\ Frame(dt)
  /\ hands' = [hands EXCEPT !.valid = FALSE]
  /\ Skip("invalid")

\* Interval as it would be if no provider were throttled.
IntervalAlwaysZero(opts) == 0

\* Interval as it would be if 'webxr' were throttled like the others.
IntervalOfAnyProvider(opts) == opts.updateIntervalMs

\* const interval = provider === 'webxr' ? 0 : updateIntervalMs
Interval(opts) ==
  IF opts.provider = "webxr" THEN 0 ELSE opts.updateIntervalMs

Throttled(opts, t, last) == Interval(opts) > 0 /\ (t - last) < Interval(opts)

\* UpdateThrottled as it would be if a throttled update() took its time as
\* the time of the last evaluation.
UpdateThrottledAdvances(dt) ==
  /\ options.enabled
  /\ Throttled(options, now + dt, lastEvaluation)
  /\ Frame(dt)
  /\ hands' = [hands EXCEPT !.valid = TRUE]
  /\ outcome' = "throttled"
  /\ events' = <<>>
  /\ lastEvaluation' = now + dt
  /\ UNCHANGED <<activeGestures, providerWarned, warnings, openGestures,
                 lifecycleBroken>>

\* update() returning at the interval test, the hands being valid.
UpdateThrottled(dt) ==
  /\ options.enabled
  /\ Throttled(options, now + dt, lastEvaluation)
  /\ Frame(dt)
  /\ hands' = [hands EXCEPT !.valid = TRUE]
  /\ Skip("throttled")

\* update() evaluating the left hand and then the right hand.
UpdateEvaluate(left, right, dt) ==
  /\ options.enabled
  /\ ~Throttled(options, now + dt, lastEvaluation)
  /\ Frame(dt)
  /\ hands' = [valid |-> TRUE, pose |-> [left |-> left, right |-> right]]
  /\ \E l \in {EvaluateHand("left", activeGestures["left"], left, options)},
        r \in {EvaluateHand("right", activeGestures["right"], right, options)} :
       /\ activeGestures' = [left |-> l.active, right |-> r.active]
       /\ events' = l.events \o r.events
  /\ \E obs \in {Observe([open |-> openGestures, broken |-> lifecycleBroken],
                         events')} :
       /\ openGestures' = obs.open
       /\ lifecycleBroken' = obs.broken
  /\ providerWarned' = (providerWarned \/ WarnProvider(options, providerWarned))
  /\ warnings' = IF WarnProvider(options, providerWarned)
                 THEN warnings + 1 ELSE warnings
  /\ lastEvaluation' = now + dt
  /\ outcome' = "evaluated"

\* SetOptions as it would be if disabling recognition emptied both maps.
SetOptionsClearsOnDisable(opts) ==
  /\ Cardinality({f \in DOMAIN opts : opts[f] # options[f]}) = 1
  /\ options' = opts
  /\ outcome' = "configured"
  /\ activeGestures' = IF opts.enabled THEN activeGestures
                       ELSE [h \in Hands |-> <<>>]
  /\ UNCHANGED <<hands, now, lastEvaluation, providerWarned, warnings,
                 subscriber, bench, events, openGestures, lifecycleBroken>>

\* The application assigns one field of the options between two frames.
SetOptions(opts) ==
  /\ Cardinality({f \in DOMAIN opts : opts[f] # options[f]}) = 1
  /\ options' = opts
  /\ outcome' = "configured"
  /\ UNCHANGED <<hands, now, activeGestures, lastEvaluation, providerWarned,
                 warnings, subscriber, bench, events, openGestures,
                 lifecycleBroken>>

Next ==
  \/ \E dt \in TickDeltas : UpdateDisabled(dt)
  \/ \E dt \in TickDeltas : UpdateInvalid(dt)
  \/ \E dt \in TickDeltas : UpdateThrottled(dt)
  \/ \E left \in LeftPoses, right \in RightPoses, dt \in TickDeltas :
        UpdateEvaluate(left, right, dt)
  \/ \E opts \in OptionValues : SetOptions(opts)

Spec == Init /\ [][Next]_vars

\* ------------------------------------------- subscribers that call update()
\* dispatchEvent runs the handlers before it returns, so a handler that calls
\* update() runs a whole nested update() in the middle of evaluateHand. b is
\* the block, [active, last, warned, warnings, events], events being the
\* events dispatched so far in dispatch order; env is what the nested calls
\* read, [pose, opts, t, sub]: the hands, this.options, performance.now() and
\* the event type whose handler calls update(); depth is the number of
\* nested calls the handlers still make. Each step of a loop is evaluated
\* before the next one starts (Apply).
RECURSIVE ReentrantUpdate(_, _, _)

\* emitGesture(type, detail) with such a handler subscribed.
DispatchEvent(b, e, env, depth) ==
  IF env.sub = e.type /\ depth > 0
  THEN ReentrantUpdate([b EXCEPT !.events = Append(@, e)], env, depth - 1)
  ELSE [b EXCEPT !.events = Append(@, e)]

\* The hand-loss branch: the loop runs over the live entries of the map, the
\* map is cleared after the loop.
RECURSIVE ReentrantEndAll(_, _, _, _, _)
ReentrantEndAll(b, i, hand, env, depth) ==
  IF i > Len(b.active[hand]) THEN [b EXCEPT !.active[hand] = <<>>]
  ELSE Apply(LAMBDA after : ReentrantEndAll(after, i + 1, hand, env, depth),
             DispatchEvent(b, GestureEnd(b.active[hand][i].name, hand), env,
                           depth))

\* Lines 144-170: the map is changed first, the event dispatched after.
ReentrantApplyResult(st, gestureName, hand, result, env, depth) ==
  IF result.ok /\ RGe(result.confidence, env.opts.minimumConfidence)
  THEN [b |->
          DispatchEvent(
            [st.b EXCEPT !.active[hand] =
               MapSet(@, gestureName, Clamp(result.confidence, R(0), R(1)),
                      result.data)],
            EmitGesture(IF MapHas(st.b.active[hand], gestureName)
                        THEN "gestureupdate" ELSE "gesturestart",
                        gestureName, hand,
                        Clamp(result.confidence, R(0), R(1)), result.data),
            env, depth),
        processed |-> st.processed \cup {gestureName}]
  ELSE IF MapHas(st.b.active[hand], gestureName)
  THEN [b |->
          DispatchEvent(
            [st.b EXCEPT !.active[hand] = MapDelete(@, gestureName)],
            GestureEnd(gestureName, hand), env, depth),
        processed |-> st.processed \cup {gestureName}]
  ELSE [st EXCEPT !.processed = st.processed \cup {gestureName}]

ReentrantEvaluateGesture(st, gestureName, hand, env, depth) ==
  IF ~env.opts.gestures[gestureName].enabled THEN st
  ELSE IF gestureName \notin Detectors THEN st
  ELSE ReentrantApplyResult(
         st, gestureName, hand,
         Detections[env.pose[hand]][gestureName][env.opts.gestures[gestureName]],
         env, depth)

RECURSIVE ReentrantEvaluateGestures(_, _, _, _, _)
ReentrantEvaluateGestures(st, i, hand, env, depth) ==
  IF i > Len(GestureOrder) THEN st
  ELSE Apply(LAMBDA s : ReentrantEvaluateGestures(s, i + 1, hand, env, depth),
             ReentrantEvaluateGesture(st, GestureOrder[i], hand, env, depth))

\* Lines 174-180: keys is Array.from(activeMap.keys()), taken before the loop;
\* a key that was not processed is deleted and its gestureend dispatched
\* whether or not the map still holds it.
RECURSIVE ReentrantPurge(_, _, _, _, _, _)
ReentrantPurge(b, keys, processed, hand, env, depth) ==
  IF keys = <<>> THEN b
  ELSE IF Head(keys).name \notin processed
  THEN Apply(LAMBDA after :
               ReentrantPurge(after, Tail(keys), processed, hand, env, depth),
             DispatchEvent(
               [b EXCEPT !.active[hand] = MapDelete(@, Head(keys).name)],
               GestureEnd(Head(keys).name, hand), env, depth))
  ELSE ReentrantPurge(b, Tail(keys), processed, hand, env, depth)

ReentrantPurgeAfter(st, hand, env, depth) ==
  ReentrantPurge(st.b, st.b.active[hand], st.processed, hand, env, depth)

ReentrantEvaluateHand(b, hand, env, depth) ==
  IF Contexts[env.pose[hand]] = NoContext
  THEN ReentrantEndAll(b, 1, hand, env, depth)
  ELSE Apply(LAMBDA st : ReentrantPurgeAfter(st, hand, env, depth),
             ReentrantEvaluateGestures([b |-> b, processed |-> {}], 1, hand,
                                       env, depth))

\* update() called with valid hands, from the frame loop or from a handler.
ReentrantUpdate(b, env, depth) ==
  IF ~env.opts.enabled THEN b
  ELSE IF Throttled(env.opts, env.t, b.last) THEN b
  ELSE Apply(LAMBDA left : ReentrantEvaluateHand(left, "right", env, depth),
             ReentrantEvaluateHand(
               [b EXCEPT !.warned = (@ \/ WarnProvider(env.opts, b.warned)),
                         !.warnings = IF WarnProvider(env.opts, b.warned)
                                      THEN @ + 1 ELSE @,
                         !.last = env.t],
               "left", env, depth))

\* update() evaluating the hands while the handler of subscriber calls
\* update().
UpdateReentrant(left, right, dt) ==
  /\ options.enabled
  /\ ~Throttled(options, now + dt, lastEvaluation)
  /\ Frame(dt)
  /\ hands' = [valid |-> TRUE, pose |-> [left |-> left, right |-> right]]
  /\ \E b \in {ReentrantUpdate(
                 [active |-> activeGestures, last |-> lastEvaluation,
                  warned |-> providerWarned, warnings |-> warnings,
                  events |-> <<>>],
                 [pose |-> [left |-> left, right |-> right], opts |-> options,
                  t |-> now + dt, sub |-> subscriber],
                 MaxReentry)} :
       /\ activeGestures' = b.active
       /\ lastEvaluation' = b.last
       /\ providerWarned' = b.warned
       /\ warnings' = b.warnings
       /\ events' = b.events
  /\ \E obs \in {Observe([open |-> openGestures, broken |-> lifecycleBroken],
                         events')} :
       /\ openGestures' = obs.open
       /\ lifecycleBroken' = obs.broken
  /\ outcome' = "evaluated"

\* The event types a handler that calls update() is subscribed to.
ReentryTypes == {"gesturestart", "gestureupdate", "gestureend"}

ReentrantInit ==
  /\ options \in {o \in OptionValues : o.enabled /\ o.minimumConfidence = <<1, 2>>}
  /\ hands = [valid |-> FALSE, pose |-> [h \in Hands |-> "untracked"]]
  /\ now = 0
  /\ activeGestures = [h \in Hands |-> <<>>]
  /\ lastEvaluation = 0
  /\ providerWarned = FALSE
  /\ warnings = 0
  /\ subscriber \in ReentryTypes
  /\ bench = NoBench
  /\ events = <<>>
  /\ outcome = "init"
  /\ openGestures = {}
  /\ lifecycleBroken = FALSE

\* The application changes the gesture configuration between two frames.
SetGestures(gestures) ==
  /\ gestures # options.gestures
  /\ options' = [options EXCEPT !.gestures = gestures]
  /\ outcome' = "configured"
  /\ UNCHANGED <<hands, now, activeGestures, lastEvaluation, providerWarned,
                 warnings, subscriber, bench, events, openGestures,
                 lifecycleBroken>>

ReentrantNext ==
  \/ \E dt \in TickDeltas : UpdateInvalid(dt)
  \/ \E dt \in TickDeltas : UpdateThrottled(dt)
  \/ \E left \in LeftPoses, right \in RightPoses, dt \in TickDeltas :
        UpdateReentrant(left, right, dt)
  \/ \E gestures \in GestureConfigs : SetGestures(gestures)

ReentrantSpec == ReentrantInit /\ [][ReentrantNext]_vars

\* ------------------------------------------------- the pinch detector alone
\* computePinch called on hands that differ in the distance between thumb
\* tip and index tip, under the default and under configured thresholds.
PinchConfigs == {GestureOn, GestureAt(15), GestureAt(40)}

\* A hand whose thumb tip is distance millimetres from its index tip.
PinchHand(distance) == Tips(150 - distance, 150, 160, 150, 130)

PinchResult(config, distance) == ComputePinch(PinchHand(distance), config)

\* The block is not running: no update() is called.
PinchInit ==
  /\ options = [enabled |-> FALSE, provider |-> "webxr", updateIntervalMs |-> 0,
                minimumConfidence |-> <<1, 2>>, gestures |-> GesturesEnabled({})]
  /\ hands = [valid |-> FALSE, pose |-> [h \in Hands |-> "untracked"]]
  /\ now = 0
  /\ activeGestures = [h \in Hands |-> <<>>]
  /\ lastEvaluation = 0
  /\ providerWarned = FALSE
  /\ warnings = 0
  /\ subscriber = "none"
  /\ bench \in {[config |-> config, distance |-> distance, measured |-> FALSE,
                 result |-> NoResult] :
                  config \in PinchConfigs, distance \in 0..MaxDistance}
  /\ events = <<>>
  /\ outcome = "init"
  /\ openGestures = {}
  /\ lifecycleBroken = FALSE

\* computePinch(context, config) on the hand as it is.
MeasurePinch ==
  /\ ~bench.measured
  /\ bench' = [bench EXCEPT !.measured = TRUE,
                            !.result = PinchResult(bench.config, bench.distance)]
  /\ UNCHANGED <<options, hands, now, activeGestures, lastEvaluation,
                 providerWarned, warnings, subscriber, events, outcome,
                 openGestures, lifecycleBroken>>

\* The thumb tip moves and computePinch is called on the new hand.
MoveThumb(distance) ==
  /\ distance # bench.distance
  /\ bench' = [config |-> bench.config, distance |-> distance,
               measured |-> TRUE,
               result |-> PinchResult(bench.config, distance)]
  /\ UNCHANGED <<options, hands, now, activeGestures, lastEvaluation,
                 providerWarned, warnings, subscriber, events, outcome,
                 openGestures, lifecycleBroken>>

PinchNext ==
  \/ MeasurePinch
  \/ \E distance \in 0..MaxDistance : MoveThumb(distance)

PinchSpec == PinchInit /\ [][PinchNext]_vars

\* ------------------------------------------------------ the detectors alone
\* Every registered detector called on hands of several shapes, with any of
\* the wrist and the finger tips missing, under default and configured
\* thresholds.

\* The block is not running: no update() is called.
BlockAtRest ==
  /\ options = [enabled |-> FALSE, provider |-> "webxr", updateIntervalMs |-> 0,
                minimumConfidence |-> <<1, 2>>, gestures |-> GesturesEnabled({})]
  /\ hands = [valid |-> FALSE, pose |-> [h \in Hands |-> "untracked"]]
  /\ now = 0
  /\ activeGestures = [h \in Hands |-> <<>>]
  /\ lastEvaluation = 0
  /\ providerWarned = FALSE
  /\ warnings = 0
  /\ subscriber = "none"
  /\ events = <<>>
  /\ outcome = "init"
  /\ openGestures = {}
  /\ lifecycleBroken = FALSE

BlockUntouched ==
  UNCHANGED <<options, hands, now, activeGestures, lastEvaluation,
              providerWarned, warnings, subscriber, events, outcome,
              openGestures, lifecycleBroken>>

\* The distances of the five finger tips from the wrist, thumb first (a
\* negative one is a tip below the wrist).
Shapes ==
  { <<100, 150, 160, 150, 130>>, <<130, 150, 160, 150, 130>>,
    <<20, 10, 10, 10, 10>>, <<120, 0, 0, 0, 0>>, <<-120, 20, 20, 20, 20>>,
    <<30, 150, 0, 0, 0>>, <<30, 30, 30, 30, 30>>, <<45, 45, 45, 45, 45>>,
    <<60, 60, 60, 60, 60>>, <<75, 75, 75, 75, 75>>,
    <<105, 105, 105, 105, 105>>, <<135, 135, 135, 135, 135>> }

\* The joints the detectors read.
Droppable == {"wrist"} \cup {FingerTipNames[i] : i \in DOMAIN FingerTipNames}

\* The context of a hand of the shape that lacks the joints of gone.
ShapeContext(shape, gone) ==
  Without(Tips(shape[1], shape[2], shape[3], shape[4], shape[5]), gone)

\* The threshold a gesture's configuration is given when it is given one that
\* is not the default, in millimetres.
CustomThreshold(name) ==
  CASE name = "pinch" -> 15
    [] name = "open-palm" -> 60
    [] name = "fist" -> 60
    [] name = "thumbs-up" -> 100
    [] name = "point" -> 100
    [] name = "spread" -> 20

\* The default of the detectors whose default is a whole number of
\* millimetres.
DefaultThreshold(name) ==
  CASE name = "pinch" -> DEFAULT_PINCH_THRESHOLD
    [] name = "open-palm" -> DEFAULT_OPEN_PALM_THRESHOLD
    [] name = "fist" -> DEFAULT_FIST_THRESHOLD
    [] name = "point" -> DEFAULT_POINT_THRESHOLD
    [] name = "spread" -> DEFAULT_SPREAD_THRESHOLD

\* The configurations a gesture is given.
BenchConfigs(name) ==
  {GestureOn, GestureAt(CustomThreshold(name))}
    \cup (IF name = "thumbs-up" THEN {}
          ELSE {GestureAt(DefaultThreshold(name))})

AllBenchConfigs == UNION {BenchConfigs(name) : name \in Detectors}

\* detector(context, config) for every detector, context and configuration,
\* computed once.
BenchResults ==
  [shape \in Shapes |->
     [gone \in SUBSET Droppable |->
        [name \in Detectors |->
           [config \in AllBenchConfigs |->
              Detect(name, ShapeContext(shape, gone), config)]]]]

\* this.detectors.get(name)(context, this.options.gestures[name])
RunOn(name, shape, gone, gestures) ==
  [name |-> name, shape |-> shape, gone |-> gone, gestures |-> gestures,
   measured |-> TRUE, result |-> BenchResults[shape][gone][name][gestures[name]]]

DetectorInit ==
  /\ BlockAtRest
  /\ bench \in {[name |-> name, shape |-> shape, gone |-> {},
                 gestures |-> [g \in Detectors |-> GestureOn],
                 measured |-> FALSE, result |-> NoResult] :
                  name \in Detectors, shape \in Shapes}

\* The detector is called on the hand as it is.
RunDetector ==
  /\ ~bench.measured
  /\ bench' = RunOn(bench.name, bench.shape, bench.gone, bench.gestures)
  /\ BlockUntouched

\* The hand loses a joint and the detector is called again.
DropJoint(joint) ==
  /\ bench.measured
  /\ joint \notin bench.gone
  /\ bench' = RunOn(bench.name, bench.shape, bench.gone \cup {joint},
                    bench.gestures)
  /\ BlockUntouched

\* The hand takes another shape and the detector is called again.
Reshape(shape) ==
  /\ bench.measured
  /\ shape # bench.shape
  /\ bench' = RunOn(bench.name, shape, bench.gone, bench.gestures)
  /\ BlockUntouched

\* The configuration of one gesture is replaced, the others being at their
\* defaults, and the detector is called again.
Configure(gesture, config) ==
  /\ bench.measured
  /\ bench.gestures[gesture] # config
  /\ \A g \in Detectors \ {gesture} : bench.gestures[g] = GestureOn
  /\ bench' = RunOn(bench.name, bench.shape, bench.gone,
                    [bench.gestures EXCEPT ![gesture] = config])
  /\ BlockUntouched

DetectorNext ==
  \/ RunDetector
  \/ \E joint \in Droppable : DropJoint(joint)
  \/ \E shape \in Shapes : Reshape(shape)
  \/ \E gesture \in Detectors : \E config \in BenchConfigs(gesture) :
        Configure(gesture, config)

DetectorSpec == DetectorInit /\ [][DetectorNext]_vars

\* ------------------------------------------------------ the pooled joint maps
\* JOINT_TEMP_POOL holds one map from joint name to vector per hand label;
\* buildHandContext clears the map of the hand, fills it from the joints the
\* pose source supplies and returns it as the joints of the context. A hand
\* label that has no map yet is NoCache.
NoCache == <<>>

\* The joints the pose source supplies for the hand: the right hand is
\* HandOffset millimetres to the right of the left hand.
HandOffset(handLabel) == IF handLabel = "right" THEN 200 ELSE 0
JointsOf(handLabel, pose) ==
  [j \in JointNames |->
     IF HandJoints(pose)[j] = Missing THEN Missing
     ELSE <<HandJoints(pose)[j][1] + HandOffset(handLabel),
            HandJoints(pose)[j][2], HandJoints(pose)[j][3]>>]

\* ClearJoints as it would be if joints.clear() were left out.
ClearJointsKeeps(jointCache) ==
  IF jointCache = NoCache THEN [j \in JointNames |-> Missing] ELSE jointCache

\* JOINT_TEMP_POOL.get(handLabel), a new Map() if there is none, and
\* joints.clear().
ClearJoints(jointCache) == [j \in JointNames |-> Missing]

\* The loop over HAND_JOINT_NAMES: a joint the hand has gets the position of
\* the joint, in the vector the map holds for it or in a new one; a joint the
\* hand lacks is skipped.
FillJoints(joints, supplied) ==
  [j \in JointNames |-> IF supplied[j] = Missing THEN joints[j] ELSE supplied[j]]

\* buildHandContext(handedness, handLabel) on the pool: the pool afterwards
\* and the context returned.
PooledContext(pool, handLabel, pose) ==
  IF ~HasJoints(pose) THEN [pool |-> pool, context |-> NoContext]
  ELSE LET joints ==
             FillJoints(ClearJoints(pool[handLabel]), JointsOf(handLabel, pose))
       IN  [pool |-> [pool EXCEPT ![handLabel] = joints],
            context |-> IF \A j \in JointNames : joints[j] = Missing
                        THEN NoContext ELSE joints]

\* The pool is empty when the module is loaded; no context is built yet.
PoolInit ==
  /\ BlockAtRest
  /\ bench = [pool |-> [h \in Hands |-> NoCache], handLabel |-> "left",
              pose |-> "untracked", before |-> NoCache, built |-> FALSE,
              context |-> NoContext]

\* buildHandContext is called for a hand in a pose; before is the map the
\* pool held for the hand when it was called.
BuildContext(handLabel, pose) ==
  /\ \E r \in {PooledContext(bench.pool, handLabel, pose)} :
       bench' = [pool |-> r.pool, handLabel |-> handLabel, pose |-> pose,
                 before |-> bench.pool[handLabel], built |-> TRUE,
                 context |-> r.context]
  /\ BlockUntouched

PoolNext == \E handLabel \in Hands, pose \in PoseNames : BuildContext(handLabel, pose)

PoolSpec == PoolInit /\ [][PoolNext]_vars

\* ------------------------------------------------- the WebView overlay system
\* The static fields of WebView and what ensureSystem creates: w is
\* [cssRenderer, cameraRef, instances, built, renderers, domElements,
\* resizeListeners, loops, synced, renderedWith, supplied, viewsAtStart,
\* lastCall]. instances holds the views in the order of their construction,
\* a view being its number; built holds the views whose occlusionMesh and
\* cssObject are assigned; renderers, domElements, resizeListeners and loops
\* count what has been created; synced holds the views the last frame
\* synchronised, renderedWith the camera it rendered with; supplied records
\* that initialize has been given a camera, viewsAtStart the number of views
\* in the list when the renderer was created.
Cameras == {"camera-a", "camera-b"}
NoCamera == "null"

\* The frame callback tick, requestAnimationFrame(tick) included: it
\* synchronises every view of the list that has its occlusionMesh and its
\* cssObject and renders, if there is a renderer and a camera.
Tick(w) ==
  IF w.cssRenderer /\ w.cameraRef # NoCamera
  THEN [w EXCEPT !.synced = {w.instances[i] : i \in DOMAIN w.instances}
                              \cap w.built,
                 !.renderedWith = w.cameraRef]
  ELSE w

\* EnsureSystem as it would be without the test of WebView.cssRenderer.
EnsureSystemEveryTime(w) ==
  IF w.cameraRef = NoCamera THEN w
  ELSE Tick([w EXCEPT !.cssRenderer = TRUE,
                      !.renderers = @ + 1,
                      !.domElements = @ + 1,
                      !.resizeListeners = @ + 1,
                      !.loops = @ + 1,
                      !.viewsAtStart = Len(w.instances)])

\* ensureSystem(): returns if there is a renderer or no camera; otherwise
\* creates the renderer, appends its DOM element, adds the resize listener
\* and calls tick() for the first time.
EnsureSystem(w) ==
  IF w.cssRenderer \/ w.cameraRef = NoCamera THEN w
  ELSE Tick([w EXCEPT !.cssRenderer = TRUE,
                      !.renderers = @ + 1,
                      !.domElements = @ + 1,
                      !.resizeListeners = @ + 1,
                      !.loops = @ + 1,
                      !.viewsAtStart = Len(w.instances)])

\* The class is loaded: no renderer, no camera, no instance.
WebViewInit ==
  /\ BlockAtRest
  /\ bench = [cssRenderer |-> FALSE, cameraRef |-> NoCamera, instances |-> <<>>,
              built |-> {}, renderers |-> 0, domElements |-> 0,
              resizeListeners |-> 0, loops |-> 0, synced |-> {},
              renderedWith |-> NoCamera, supplied |-> FALSE,
              viewsAtStart |-> 0, lastCall |-> "load"]

\* new WebView(options): the view is pushed on the list, ensureSystem is
\* called, then the view gets its occlusionMesh and its cssObject.
Construct ==
  /\ Len(bench.instances) < MaxViews
  /\ \E view \in {Len(bench.instances) + 1} :
       \E w \in {EnsureSystem([bench EXCEPT !.instances = Append(@, view)])} :
         bench' = [w EXCEPT !.built = @ \cup {view}, !.lastCall = "constructor"]
  /\ BlockUntouched

\* WebView.initialize(camera); the caller may pass null.
Initialize(camera) ==
  /\ bench' = [EnsureSystem([bench EXCEPT
                               !.cameraRef = camera,
                               !.supplied = @ \/ camera # NoCamera])
                 EXCEPT !.lastCall = "initialize"]
  /\ BlockUntouched

\* The browser runs the frame callback of the render loop.
AnimationFrame ==
  /\ bench.loops > 0
  /\ bench' = [Tick(bench) EXCEPT !.lastCall = "frame"]
  /\ BlockUntouched

WebViewNext ==
  \/ Construct
  \/ \E camera \in Cameras \cup {NoCamera} : Initialize(camera)
  \/ AnimationFrame

WebViewSpec == WebViewInit /\ [][WebViewNext]_vars

\* ------------------------------------------- the detectors called as methods
\* A detector is a method bound to the block and is handed the context
\* object evaluateHand built, so a call can read and write the fields of the
\* block, dispatch events and move the vectors of the context. Here every
\* call of evaluateHand's loop is made on the block as it is at that point of
\* the loop and is recorded. self is what a call can reach of the block,
\* [activeGestures, events], events being the events dispatched so far in
\* this update(); a context is [handLabel, joints].
DetectorOrder ==
  <<"pinch", "open-palm", "fist", "thumbs-up", "point", "spread">>

\* The hands the pose source delivers: an open hand, a fist, and an open
\* hand without the wrist.
PurityShapes == { <<100, 150, 160, 150, 130>>, <<20, 10, 10, 10, 10>> }
PurityHands ==
  {ShapeContext(shape, {}) : shape \in PurityShapes}
    \cup {ShapeContext(<<100, 150, 160, 150, 130>>, {"wrist"})}

\* The gesture whose threshold the application changes, and the
\* configurations it gives it.
PurityConfigured == {"point"}
PurityConfigs(name) == {GestureOn, GestureAt(CustomThreshold(name))}

\* DetectorCall as it would be if a detector kept the confidence stored for
\* its gesture in the hand's map when that is the larger one.
DetectorCallReadsMap(name, self, context, config) ==
  LET result == Detect(name, context.joints, config)
      activeMap == self.activeGestures[context.handLabel]
  IN  [result |->
         IF result.ok /\ MapHas(activeMap, name)
         THEN [result EXCEPT
                 !.confidence = RMax(@, MapGet(activeMap, name).confidence)]
         ELSE result,
       self |-> self,
       context |-> context]

\* detector(context, config), the detector being bound to the block: what it
\* returns, and the block and the context as it leaves them. The compute*
\* methods read context.joints and config.threshold only and assign nothing.
DetectorCall(name, self, context, config) ==
  [result |-> Detect(name, context.joints, config),
   self |-> self,
   context |-> context]

\* One iteration of the loop over Object.entries(this.options.gestures); st
\* is [self, context, processed, calls], calls being the record of the
\* detector calls made so far.
CalledEvaluateGesture(st, gestureName, hand, opts) ==
  IF ~opts.gestures[gestureName].enabled THEN st
  ELSE IF gestureName \notin Detectors THEN st
  ELSE Apply(
         LAMBDA call :
           Apply(LAMBDA applied :
                   [self |-> [call.self EXCEPT
                                !.activeGestures[hand] = applied.active,
                                !.events = applied.events],
                    context |-> call.context,
                    processed |-> applied.processed,
                    calls |->
                      Append(st.calls,
                             [name |-> gestureName, hand |-> hand,
                              config |-> opts.gestures[gestureName],
                              before |-> st.self, after |-> call.self,
                              contextBefore |-> st.context,
                              contextAfter |-> call.context,
                              result |-> call.result])],
                 ApplyResult([active |-> call.self.activeGestures[hand],
                              events |-> call.self.events,
                              processed |-> st.processed],
                             gestureName, hand, call.result,
                             opts.minimumConfidence)),
         DetectorCall(gestureName, st.self, st.context,
                      opts.gestures[gestureName]))

RECURSIVE CalledEvaluateGestures(_, _, _, _)
CalledEvaluateGestures(st, i, hand, opts) ==
  IF i > Len(DetectorOrder) THEN st
  ELSE Apply(LAMBDA after : CalledEvaluateGestures(after, i + 1, hand, opts),
             CalledEvaluateGesture(st, DetectorOrder[i], hand, opts))

\* evaluateHand(handedness) for a hand that has the joints: the context is
\* built, the loop runs, the gestures that were not processed are ended.
CalledEvaluateHand(self, calls, hand, joints, opts) ==
  Apply(LAMBDA st :
          Apply(LAMBDA purged :
                  [self |-> [st.self EXCEPT
                               !.activeGestures[hand] = purged.active,
                               !.events = purged.events],
                   calls |-> st.calls],
                Purge([active |-> st.self.activeGestures[hand],
                       events |-> st.self.events,
                       processed |-> st.processed], hand)),
        CalledEvaluateGestures(
          [self |-> self,
           context |-> [handLabel |-> hand, joints |-> joints],
           processed |-> {}, calls |-> calls],
          1, hand, opts))

\* What is kept of a call: the inputs of the detector, its result, the hand
\* it was called for and whether the gesture was in that hand's map.
CallSummary(call) ==
  [name |-> call.name, joints |-> call.contextBefore.joints,
   config |-> call.config, result |-> call.result, hand |-> call.hand,
   held |-> MapHas(call.before.activeGestures[call.hand], call.name)]

\* The block is enabled with all six gestures at their default thresholds;
\* no update() has run.
PurityInit ==
  /\ options \in {[enabled |-> TRUE, provider |-> "webxr",
                    updateIntervalMs |-> 0, minimumConfidence |-> m,
                    gestures |-> [g \in Detectors |-> GestureOn]] :
                     m \in MinimumConfidences}
  /\ hands = [valid |-> FALSE, pose |-> [h \in Hands |-> "untracked"]]
  /\ now = 0
  /\ activeGestures = [h \in Hands |-> <<>>]
  /\ lastEvaluation = 0
  /\ providerWarned = FALSE
  /\ warnings = 0
  /\ subscriber = "none"
  /\ bench = [round |-> 0, calls |-> <<>>, seen |-> {}]
  /\ events = <<>>
  /\ outcome = "init"
  /\ openGestures = {}
  /\ lifecycleBroken = FALSE

\* The time between two calls of update() here, in ms: one frame.
PurityDeltas == {16}

\* update() with recognition enabled, the hands being valid and having the
\* joints left and right, dt after the last call: it passes the interval
\* test, takes the time of the clock as the time of the last evaluation and
\* evaluates the left hand and then the right hand; the events reach the
\* subscribers.
EvaluateRound(left, right, dt) ==
  /\ bench.round < MaxRounds
  /\ options.enabled
  /\ ~Throttled(options, now + dt, lastEvaluation)
  /\ now' = now + dt
  /\ hands' = [valid |-> TRUE, pose |-> [left |-> left, right |-> right]]
  /\ \E l \in {CalledEvaluateHand(
                  [activeGestures |-> activeGestures, events |-> <<>>],
                  <<>>, "left", left, options)} :
       \E r \in {CalledEvaluateHand(l.self, l.calls, "right", right,
                                    options)} :
         /\ activeGestures' = r.self.activeGestures
         /\ events' = r.self.events
         /\ bench' = [round |-> bench.round + 1, calls |-> r.calls,
                      seen |-> bench.seen
                               \cup {CallSummary(r.calls[i]) :
                                       i \in DOMAIN r.calls}]
  /\ \E obs \in {Observe([open |-> openGestures, broken |-> lifecycleBroken],
                         events')} :
       /\ openGestures' = obs.open
       /\ lifecycleBroken' = obs.broken
  /\ providerWarned' = (providerWarned \/ WarnProvider(options, providerWarned))
  /\ warnings' = IF WarnProvider(options, providerWarned)
                 THEN warnings + 1 ELSE warnings
  /\ lastEvaluation' = now + dt
  /\ outcome' = "evaluated"
  /\ UNCHANGED <<options, subscriber>>

\* The application replaces the configuration of one gesture between two
\* updates.
Reconfigure(gesture, config) ==
  /\ bench.round < MaxRounds
  /\ options.gestures[gesture] # config
  /\ options' = [options EXCEPT !.gestures[gesture] = config]
  /\ outcome' = "configured"
  /\ UNCHANGED <<hands, now, activeGestures, lastEvaluation, providerWarned,
                 warnings, subscriber, bench, events, openGestures,
                 lifecycleBroken>>

PurityNext ==
  \/ \E left \in PurityHands, right \in PurityHands, dt \in PurityDeltas :
        EvaluateRound(left, right, dt)
  \/ \E gesture \in PurityConfigured : \E config \in PurityConfigs(gesture) :
        Reconfigure(gesture, config)

PuritySpec == PurityInit /\ [][PurityNext]_vars

\* ------------------------------------------------------------- vocabulary
\* The step is a call of update() (only update() moves the clock).
IsTick == now' # now
\* The step is a call of update() that evaluated both hands.
IsEvaluation == IsTick /\ outcome' = "evaluated"

\* The events of evs that belong to the hand, and to one gesture of it.
EventsOfHand(evs, hand) == SelectSeq(evs, LAMBDA e : e.hand = hand)
EventsOfPair(evs, hand, name) ==
  SelectSeq(evs, LAMBDA e : e.hand = hand /\ e.name = name)
EventTypes(evs) == {evs[i].type : i \in DOMAIN evs}

\* The entries of both maps, as the pairs a follower of the events holds open.
ActiveEntries ==
  UNION {{[hand |-> h, name |-> activeGestures[h][i].name,
           confidence |-> activeGestures[h][i].confidence] :
            i \in DOMAIN activeGestures[h]} : h \in Hands}

\* The distance between thumb tip and index tip of the poses that have both.
ThumbIndexDistances ==
  [pose \in {"open", "pinch", "fist", "nowrist"} |->
     DistanceTo(HandJoints(pose)["thumb-tip"],
                HandJoints(pose)["index-finger-tip"])]

\* The value stored under key in the data of a detection result.
DataOf(result, key) ==
  result.data[CHOOSE i \in DOMAIN result.data : result.data[i][1] = key][2]

\* How far tips at the mean distance average are curled: 1 at the wrist, 0
\* from 49.5 mm on.
CurlScore(average) ==
  Clamp(RDiv(RSub(<<99, 2>>, average), <<99, 2>>), R(0), R(1))

\* The mean distance from the wrist of the finger tips a hand of the shape
\* has when it lacks the joints of gone (it has a tip left).
MeanTipDistance(shape, gone) ==
  LET present == {i \in DOMAIN FingerTipNames : FingerTipNames[i] \notin gone}
      part(i) == IF i \in present THEN Abs(shape[i]) ELSE 0
  IN  Ratio(part(1) + part(2) + part(3) + part(4) + part(5),
            Cardinality(present))

\* How far a tip at the distance is extended under the threshold: 0 up to
\* the threshold, 1 from 1.6 times the threshold on.
ExtendedScore(distance, threshold) ==
  Clamp(RDiv(RSub(distance, threshold), RMul(threshold, <<3, 5>>)), R(0), R(1))

\* The value lies between 0 and 1.
InUnit(x) == RGe(x, R(0)) /\ RGe(R(1), x)

\* The names of the entries of a map.
NameSet(activeMap) == {activeMap[i].name : i \in DOMAIN activeMap}

\* On no hand of the shapes, whatever joints it lacks, do the fist detector
\* and the open-palm detector both report a confidence above 0 under their
\* default thresholds.
NeverBothAboveZero ==
  \A shape \in Shapes, gone \in SUBSET Droppable :
    LET fist == BenchResults[shape][gone]["fist"][GestureOn]
        palm == BenchResults[shape][gone]["open-palm"][GestureOn]
    IN  ~(/\ fist.ok /\ RGt(fist.confidence, R(0))
          /\ palm.ok /\ RGt(palm.confidence, R(0)))

\* The hand whose joints are named by pose has a pose (a context is built).
Tracked(pose) == Contexts[pose] # NoContext

\* The gesture is enabled, has a detector, and its detector, run on the pose
\* with the gesture's configuration, reports at least the minimum confidence.
Detected(name, pose, opts) ==
  /\ opts.gestures[name].enabled
  /\ name \in Detectors
  /\ Tracked(pose)
  /\ LET result == Detections[pose][name][opts.gestures[name]]
     IN  result.ok /\ RGe(result.confidence, opts.minimumConfidence)

\* ------------------------------------------------------------------ claims

\* C1 (lifecycle completeness): over every sequence of update() calls and
\* option changes, the events of each pair of hand and gesture alternate as
\* gesturestart, any number of gestureupdate, gestureend: no gesturestart
\* reaches a subscriber for a pair that is open, and no gestureupdate or
\* gestureend for a pair that is closed.
LifecycleAlternates == ~lifecycleBroken

\* A gesture ends on one hand in the tick in which another starts and a third
\* is updated, while a gesture is open on the other hand.
LifecycleWitness ==
  /\ outcome = "evaluated"
  /\ EventTypes(EventsOfHand(events, "left"))
       = {"gesturestart", "gestureupdate", "gestureend"}
  /\ \E o \in openGestures : o.hand = "right"

\* C2 (active-set invariant): right after an evaluation a gesture is in the
\* hand's active map exactly if it was enabled and its detector reported at
\* least minimumConfidence in that evaluation; steps that do not evaluate
\* leave both maps as they are.
ActiveSetMatchesEvaluation ==
  /\ [](outcome = "evaluated" =>
          \A h \in Hands :
            /\ MapKeys(activeGestures[h]) \subseteq GestureNames
            /\ \A g \in GestureNames :
                 MapHas(activeGestures[h], g)
                   <=> Detected(g, hands.pose[h], options))
  /\ [][~IsEvaluation => activeGestures' = activeGestures]_vars

\* After an evaluation the left hand holds pinch and fist, and the right hand,
\* tracked and evaluated under the same options, holds neither.
ActiveSetWitness ==
  /\ outcome = "evaluated"
  /\ MapKeys(activeGestures["left"]) = {"pinch", "fist"}
  /\ options.gestures["fist"].enabled
  /\ options.gestures["pinch"].enabled
  /\ activeGestures["right"] = <<>>
  /\ Tracked(hands.pose["right"])

\* C3 (hand-loss closure): an evaluation of a hand that has no pose
\* dispatches, for that hand, exactly one gestureend with confidence 0 per
\* gesture that was active on it and nothing else, and leaves its map empty.
HandLossClosure ==
  [][IsEvaluation =>
       \A h \in Hands :
         ~Tracked(hands'.pose[h]) =>
           LET evs == EventsOfHand(events', h)
           IN  /\ activeGestures'[h] = <<>>
               /\ Len(evs) = Len(activeGestures[h])
               /\ \A i \in DOMAIN evs :
                    evs[i].type = "gestureend" /\ evs[i].confidence = R(0)
               /\ \A g \in MapKeys(activeGestures[h]) :
                    Len(EventsOfPair(events', h, g)) = 1]_vars

\* A hand that held two gestures lost its pose: two gestureend, map empty.
HandLossWitness ==
  /\ outcome = "evaluated"
  /\ ~Tracked(hands.pose["left"])
  /\ Len(EventsOfHand(events, "left")) = 2
  /\ activeGestures["left"] = <<>>

\* C4 (a dropped hand closes its gestures): after an update() taken with
\* recognition enabled and provider 'webxr' in which a hand is not tracked,
\* because the hands are reported not valid or because the hand has no
\* pose, no gesture is active on that hand.
DroppedHandClosesGestures ==
  (outcome \in {"invalid", "evaluated"} /\ options.provider = "webxr") =>
    \A h \in Hands :
      (~hands.valid \/ ~Tracked(hands.pose[h])) => activeGestures[h] = <<>>

\* C5 (one event per transition): in one update() at most one event is
\* dispatched per pair of hand and gesture; a gesturestart exactly if the
\* gesture entered the map, a gestureend exactly if it left the map, a
\* gestureupdate only if it was and stays in the map, and always then if the
\* update() evaluated the hands.
OneEventPerTransition ==
  [][IsTick =>
       \A h \in Hands : \A g \in GestureNames :
         LET evs == EventsOfPair(events', h, g)
             before == MapHas(activeGestures[h], g)
             after == MapHas(activeGestures'[h], g)
         IN  /\ Len(evs) <= 1
             /\ "gesturestart" \in EventTypes(evs) <=> (~before /\ after)
             /\ "gestureend" \in EventTypes(evs) <=> (before /\ ~after)
             /\ "gestureupdate" \in EventTypes(evs) => (before /\ after)
             /\ (outcome' = "evaluated" /\ before /\ after)
                  => "gestureupdate" \in EventTypes(evs)
             /\ (~before /\ ~after) => evs = <<>>]_vars

\* One evaluation starts a gesture, updates a second and ends a third on the
\* left hand while an enabled gesture stays inactive.
OneEventWitness ==
  /\ outcome = "evaluated"
  /\ Len(EventsOfHand(events, "left")) = 3
  /\ EventTypes(EventsOfHand(events, "left"))
       = {"gesturestart", "gestureupdate", "gestureend"}
  /\ options.gestures["wave"].enabled

\* C6 (throttling): with a provider other than 'webxr' and updateIntervalMs
\* > 0, an update() with recognition enabled and valid hands that comes less
\* than updateIntervalMs after the last evaluation dispatches no event and
\* leaves both maps and the last-evaluation time as they are.
ThrottledTickIsNoOp ==
  [][(/\ IsTick
      /\ options.enabled
      /\ hands'.valid
      /\ options.provider # "webxr"
      /\ options.updateIntervalMs > 0
      /\ now' - lastEvaluation < options.updateIntervalMs)
       => /\ events' = <<>>
          /\ activeGestures' = activeGestures
          /\ lastEvaluation' = lastEvaluation
          /\ openGestures' = openGestures]_vars

\* A tick was skipped 50 ms after an evaluation that left a gesture active.
ThrottledWitness ==
  /\ outcome = "throttled"
  /\ options.updateIntervalMs = 100
  /\ lastEvaluation > 0
  /\ now - lastEvaluation = 50
  /\ activeGestures["left"] # <<>>

\* C7 (webxr is never throttled): with provider 'webxr' every update() with
\* recognition enabled and valid hands evaluates both hands, whatever
\* updateIntervalMs and the time since the last evaluation are.
WebxrAlwaysEvaluates ==
  [][(IsTick /\ options.enabled /\ hands'.valid /\ options.provider = "webxr")
       => /\ outcome' = "evaluated"
          /\ lastEvaluation' = now'
          /\ \A h \in Hands : \A g \in GestureNames :
               MapHas(activeGestures'[h], g)
                 <=> Detected(g, hands'.pose[h], options)]_vars

\* With updateIntervalMs = 100 the hands were evaluated at 50 ms and again
\* at 100 ms: the second evaluation dispatched a gestureupdate.
WebxrWitness ==
  /\ outcome = "evaluated"
  /\ options.provider = "webxr"
  /\ options.updateIntervalMs = 100
  /\ now = 100
  /\ lastEvaluation = 100
  /\ "gestureupdate" \in EventTypes(events)

\* C8 (start transition): an evaluation of a tracked hand in which an enabled
\* gesture with a detector is not in the map and is detected with at least
\* minimumConfidence puts it into the map and dispatches for it exactly one
\* event, a gesturestart with the confidence clamped to [0, 1] and the
\* detector's data; the map stores the same confidence and data.
StartTransition ==
  [][IsEvaluation =>
       \A h \in Hands : \A g \in GestureNames :
         (~MapHas(activeGestures[h], g) /\ Detected(g, hands'.pose[h], options))
           => LET result ==
                    Detections[hands'.pose[h]][g][options.gestures[g]]
                  confidence == Clamp(result.confidence, R(0), R(1))
              IN  /\ MapHas(activeGestures'[h], g)
                  /\ MapGet(activeGestures'[h], g).confidence = confidence
                  /\ MapGet(activeGestures'[h], g).data = result.data
                  /\ EventsOfPair(events', h, g)
                       = <<EmitGesture("gesturestart", g, h, confidence,
                                       result.data)>>]_vars

\* A pinch started on the left hand with confidence 5/9 and the measured
\* distance as its data.
StartWitness ==
  /\ outcome = "evaluated"
  /\ \E i \in DOMAIN events :
       /\ events[i].type = "gesturestart"
       /\ events[i].name = "pinch"
       /\ events[i].hand = "left"
       /\ events[i].confidence = <<5, 9>>
       /\ events[i].data = << <<"distance", R(20)>> >>

\* C9 (update transition): an evaluation in which a gesture of the map is
\* detected again keeps it in the map, dispatches exactly one gestureupdate
\* for it and replaces the stored confidence and data by the new ones; so the
\* confidence stored for an active gesture is always the one its last
\* gesturestart or gestureupdate carried.
UpdateTransition ==
  /\ [][IsEvaluation =>
          \A h \in Hands : \A g \in GestureNames :
            (MapHas(activeGestures[h], g) /\ Detected(g, hands'.pose[h], options))
              => LET result ==
                       Detections[hands'.pose[h]][g][options.gestures[g]]
                     confidence == Clamp(result.confidence, R(0), R(1))
                 IN  /\ MapHas(activeGestures'[h], g)
                     /\ MapGet(activeGestures'[h], g).confidence = confidence
                     /\ MapGet(activeGestures'[h], g).data = result.data
                     /\ EventsOfPair(events', h, g)
                          = <<EmitGesture("gestureupdate", g, h, confidence,
                                          result.data)>>]_vars
  /\ [](\A h \in Hands : \A i \in DOMAIN activeGestures[h] :
          [hand |-> h, name |-> activeGestures[h][i].name,
           confidence |-> activeGestures[h][i].confidence] \in openGestures)

\* A pinch that was active is updated to a new confidence, 7/9.
UpdateWitness ==
  /\ outcome = "evaluated"
  /\ \E i \in DOMAIN events :
       /\ events[i].type = "gestureupdate"
       /\ events[i].name = "pinch"
       /\ events[i].hand = "left"
       /\ events[i].confidence = <<7, 9>>
  /\ MapGet(activeGestures["left"], "pinch").confidence = <<7, 9>>

\* C10 (end transition): an evaluation of a tracked hand in which an enabled
\* gesture of the map is detected below minimumConfidence, or its detector
\* returns no result, removes it from the map and dispatches exactly one
\* event for it, a gestureend with confidence 0.
EndTransition ==
  [][IsEvaluation =>
       \A h \in Hands : \A g \in GestureNames :
         (/\ MapHas(activeGestures[h], g)
          /\ Tracked(hands'.pose[h])
          /\ options.gestures[g].enabled
          /\ g \in Detectors
          /\ ~Detected(g, hands'.pose[h], options))
           => /\ ~MapHas(activeGestures'[h], g)
              /\ EventsOfPair(events', h, g) = <<GestureEnd(g, h)>>]_vars

\* On the left hand, tracked but without its wrist, the enabled open-palm
\* ended because its detector returned no result and the enabled pinch ended
\* because its confidence fell below the minimum.
EndWitness ==
  /\ outcome = "evaluated"
  /\ hands.pose["left"] = "nowrist"
  /\ options.gestures["open-palm"].enabled
  /\ ~Detections["nowrist"]["open-palm"][options.gestures["open-palm"]].ok
  /\ EventsOfPair(events, "left", "open-palm") = <<GestureEnd("open-palm", "left")>>
  /\ options.gestures["pinch"].enabled
  /\ Detections["nowrist"]["pinch"][options.gestures["pinch"]].ok
  /\ EventsOfPair(events, "left", "pinch") = <<GestureEnd("pinch", "left")>>

\* C11 (missing joints do not end an active gesture): in an evaluation of a
\* tracked hand, an enabled gesture of the map whose detector returns no
\* result, a joint it reads being missing, stays in the map and no gestureend
\* is dispatched for it.
MissingJointKeepsGesture ==
  [][IsEvaluation =>
       \A h \in Hands : \A g \in GestureNames :
         (/\ MapHas(activeGestures[h], g)
          /\ Tracked(hands'.pose[h])
          /\ options.gestures[g].enabled
          /\ g \in Detectors
          /\ ~Detections[hands'.pose[h]][g][options.gestures[g]].ok)
           => /\ MapHas(activeGestures'[h], g)
              /\ "gestureend" \notin EventTypes(EventsOfPair(events', h, g))]_vars

\* C12 (disabled-gesture purge): in an evaluation of a tracked hand, a
\* gesture of the map that is not enabled any more leaves the map and gets
\* exactly one event, a gestureend with confidence 0, although its detector
\* is not run; a gesture of the map that is processed and detected again stays
\* in the map and gets no gestureend.
DisabledGesturePurged ==
  [][IsEvaluation =>
       \A h \in Hands : \A g \in GestureNames :
         (MapHas(activeGestures[h], g) /\ Tracked(hands'.pose[h]))
           => /\ ~options.gestures[g].enabled
                   => /\ ~MapHas(activeGestures'[h], g)
                      /\ EventsOfPair(events', h, g) = <<GestureEnd(g, h)>>
              /\ Detected(g, hands'.pose[h], options)
                   => /\ MapHas(activeGestures'[h], g)
                      /\ "gestureend"
                           \notin EventTypes(EventsOfPair(events', h, g))]_vars

\* The left hand, tracked, held open-palm and pinch when open-palm was
\* disabled: the next evaluation ended open-palm and updated pinch.
DisabledPurgeWitness ==
  /\ outcome = "evaluated"
  /\ Tracked(hands.pose["left"])
  /\ ~options.gestures["open-palm"].enabled
  /\ EventsOfPair(events, "left", "open-palm") = <<GestureEnd("open-palm", "left")>>
  /\ EventTypes(EventsOfPair(events, "left", "pinch")) = {"gestureupdate"}
  /\ MapHas(activeGestures["left"], "pinch")

\* C13 (no prior state and below threshold): in an evaluation of a tracked
\* hand, an enabled gesture that is not in the map and whose detector reports
\* less than minimumConfidence, or no result, gets no event and no entry.
InactiveStaysSilent ==
  [][IsEvaluation =>
       \A h \in Hands : \A g \in GestureNames :
         (/\ ~MapHas(activeGestures[h], g)
          /\ Tracked(hands'.pose[h])
          /\ options.gestures[g].enabled
          /\ g \in Detectors
          /\ ~Detected(g, hands'.pose[h], options))
           => /\ ~MapHas(activeGestures'[h], g)
              /\ EventsOfPair(events', h, g) = <<>>]_vars

\* The left hand, tracked without its wrist, was evaluated with pinch and
\* open-palm enabled: pinch, scored below the minimum, and open-palm, without
\* a result, got no event and no entry.
InactiveSilentWitness ==
  /\ outcome = "evaluated"
  /\ hands.pose["left"] = "nowrist"
  /\ options.gestures["pinch"].enabled
  /\ options.gestures["open-palm"].enabled
  /\ Detections["nowrist"]["pinch"][options.gestures["pinch"]].ok
  /\ ~Detections["nowrist"]["open-palm"][options.gestures["open-palm"]].ok
  /\ EventsOfHand(events, "left") = <<>>
  /\ activeGestures["left"] = <<>>

\* C14 (disabled feature): while options.enabled is false an update()
\* dispatches no event, leaves both maps, the last-evaluation time and the
\* provider-warned flag as they are and logs no warning.
DisabledTickIsNoOp ==
  [][(IsTick /\ ~options.enabled)
       => /\ events' = <<>>
          /\ activeGestures' = activeGestures
          /\ lastEvaluation' = lastEvaluation
          /\ providerWarned' = providerWarned
          /\ warnings' = warnings
          /\ openGestures' = openGestures]_vars

\* update() ran disabled under a provider other than 'webxr' that has not
\* been warned about, while a gesture was active on the left hand.
DisabledWitness ==
  /\ outcome = "disabled"
  /\ ~options.enabled
  /\ options.provider # "webxr"
  /\ warnings = 0
  /\ activeGestures["left"] # <<>>

\* C15 (reentrant emission): with a subscriber whose handler calls update(),
\* the events of each pair of hand and gesture still alternate as
\* gesturestart, gestureupdate..., gestureend, and after every update() the
\* pairs a follower of the events holds open are exactly the entries of the
\* maps, with the confidence of their last event.
ReentrantLifecycleHolds == ~lifecycleBroken /\ openGestures = ActiveEntries

\* C16 (no cross-hand interference): in an evaluation every event carries
\* the hand it was evaluated for, and what happens to a hand depends on that
\* hand alone: its map afterwards and its events are those of evaluateHand
\* on its own map and pose, its events name only gestures of its own map
\* before or after, and a hand whose map already holds exactly the gestures
\* its pose shows keeps them and gets only gestureupdate events, whatever
\* the other hand does.
NoCrossHandInterference ==
  [][IsEvaluation =>
       /\ \A i \in DOMAIN events' : events'[i].hand \in Hands
       /\ \A h \in Hands :
            LET evs == EventsOfHand(events', h)
                own == EvaluateHand(h, activeGestures[h], hands'.pose[h], options)
                touched == MapKeys(activeGestures[h]) \cup MapKeys(activeGestures'[h])
            IN  /\ activeGestures'[h] = own.active
                /\ evs = own.events
                /\ {evs[i].name : i \in DOMAIN evs} = touched
                /\ Len(evs) = Cardinality(touched)
                /\ MapKeys(activeGestures[h])
                     = {g \in GestureNames : Detected(g, hands'.pose[h], options)}
                     => /\ MapKeys(activeGestures'[h]) = MapKeys(activeGestures[h])
                        /\ EventTypes(evs) \subseteq {"gestureupdate"}]_vars

\* The left hand lost its pose and its gestures ended while the right hand
\* kept its pinch pose: the right hand's gestures were only updated.
CrossHandWitness ==
  /\ outcome = "evaluated"
  /\ ~Tracked(hands.pose["left"])
  /\ EventTypes(EventsOfHand(events, "left")) = {"gestureend"}
  /\ Tracked(hands.pose["right"])
  /\ activeGestures["right"] # <<>>
  /\ EventTypes(EventsOfHand(events, "right")) = {"gestureupdate"}

\* C17 (unsupported provider): under a provider other than 'webxr' every
\* update() with recognition enabled and valid hands that is not throttled
\* returns normally after evaluating both hands with the heuristic detectors,
\* and over all updates the fallback warning is logged at most once, exactly
\* when providerWarned is set.
UnsupportedProviderFallsBack ==
  /\ [](warnings <= 1 /\ (providerWarned <=> warnings = 1))
  /\ [][(/\ IsTick
         /\ options.enabled
         /\ hands'.valid
         /\ options.provider # "webxr"
         /\ (options.updateIntervalMs = 0
               \/ now' - lastEvaluation >= options.updateIntervalMs))
          => /\ outcome' = "evaluated"
             /\ providerWarned'
             /\ warnings' = 1
             /\ \A h \in Hands : \A g \in GestureNames :
                  MapHas(activeGestures'[h], g)
                    <=> Detected(g, hands'.pose[h], options)]_vars

\* The update() at 150 ms evaluated the hands under 'mediapipe' and
\* updated a gesture; the warning has been logged once.
UnsupportedProviderWitness ==
  /\ outcome = "evaluated"
  /\ options.provider = "mediapipe"
  /\ now = 150
  /\ "gestureupdate" \in EventTypes(events)
  /\ providerWarned
  /\ warnings = 1

\* C18 (event payload): every dispatched event is a gesturestart, a
\* gestureupdate or a gestureend and carries a configured gesture name, the
\* hand 'left' or 'right' and a confidence in [0, 1]; a gestureend carries
\* confidence 0 and no data, a gesturestart or gestureupdate the confidence
\* its detector reported on the hand's pose, clamped to [0, 1], and the
\* detector's data.
EventPayload ==
  \A i \in DOMAIN events :
    LET e == events[i]
    IN  /\ e.type \in {"gesturestart", "gestureupdate", "gestureend"}
        /\ e.name \in GestureNames
        /\ e.hand \in Hands
        /\ RGe(e.confidence, R(0)) /\ RGe(R(1), e.confidence)
        /\ e.type = "gestureend" => e.confidence = R(0) /\ e.data = NoData
        /\ (e.type # "gestureend" /\ outcome = "evaluated")
             => LET result ==
                      Detections[hands.pose[e.hand]][e.name][options.gestures[e.name]]
                IN  /\ result.ok
                    /\ e.confidence = Clamp(result.confidence, R(0), R(1))
                    /\ e.data = result.data

\* One update() dispatched events of all three types, one of them with
\* confidence 1 and one with a confidence strictly between 0 and 1.
EventPayloadWitness ==
  /\ outcome = "evaluated"
  /\ EventTypes(events) = {"gesturestart", "gestureupdate", "gestureend"}
  /\ \E i \in DOMAIN events : events[i].confidence = R(1)
  /\ \E i \in DOMAIN events :
       RGt(events[i].confidence, R(0)) /\ RGt(R(1), events[i].confidence)

\* C19 (pinch confidence monotonicity): for a fixed threshold, a pinch
\* measured at a smaller thumb-tip to index-tip distance, starting anywhere
\* up to 1.5 times the threshold, reports at least the confidence of the
\* larger distance, across distance = threshold as well, and at distance 0 it
\* reports 1.
PinchMonotone ==
  /\ [](bench.measured => bench.result.ok)
  /\ []((bench.measured /\ bench.distance = 0) => bench.result.confidence = R(1))
  /\ [][(/\ bench.measured
         /\ bench'.measured
         /\ bench'.distance <= bench.distance
         /\ RGe(RMul(ThresholdOr(bench.config, R(DEFAULT_PINCH_THRESHOLD)),
                     <<3, 2>>),
                R(bench.distance)))
          => RGe(bench'.result.confidence, bench.result.confidence)]_vars

\* Under the default threshold the thumb moved from just beyond the
\* threshold onto it: the confidence rose from 7/45 to 1/3.
PinchMonotoneWitness ==
  /\ bench.measured
  /\ bench.config = GestureOn
  /\ bench.distance = DEFAULT_PINCH_THRESHOLD
  /\ bench.result.confidence = <<1, 3>>
  /\ PinchResult(bench.config, bench.distance + 1).confidence = <<7, 45>>

\* C20 (example scenario): with the pinch threshold 30 mm and
\* minimumConfidence 1/2, an evaluation of a hand without an active pinch
\* whose thumb tip and index tip are 20 mm apart dispatches gesturestart
\* pinch with confidence 1 - clamp(20 / 45, 0, 1) = 5/9; an evaluation of a
\* hand with an active pinch whose tips are 50 mm apart scores the pinch below
\* 1/2, dispatches gestureend pinch with confidence 0 and leaves it inactive.
PinchScenario ==
  [][(/\ IsEvaluation
      /\ options.gestures["pinch"] = GestureOn
      /\ DEFAULT_PINCH_THRESHOLD = 30
      /\ options.minimumConfidence = <<1, 2>>)
       => \A h \in Hands :
            /\ (/\ Tracked(hands'.pose[h])
                /\ hands'.pose[h] \in DOMAIN ThumbIndexDistances
                /\ ThumbIndexDistances[hands'.pose[h]] = R(20)
                /\ ~MapHas(activeGestures[h], "pinch"))
                 => /\ EventsOfPair(events', h, "pinch")
                         = <<EmitGesture(
                               "gesturestart", "pinch", h,
                               RSub(R(1), Clamp(RDiv(R(20), R(45)), R(0), R(1))),
                               << <<"distance", R(20)>> >>)>>
                    /\ MapGet(activeGestures'[h], "pinch").confidence = <<5, 9>>
            /\ (/\ Tracked(hands'.pose[h])
                /\ hands'.pose[h] \in DOMAIN ThumbIndexDistances
                /\ ThumbIndexDistances[hands'.pose[h]] = R(50)
                /\ MapHas(activeGestures[h], "pinch"))
                 => /\ RLt(Detections[hands'.pose[h]]["pinch"][GestureOn].confidence,
                           <<1, 2>>)
                    /\ EventsOfPair(events', h, "pinch")
                         = <<GestureEnd("pinch", h)>>
                    /\ ~MapHas(activeGestures'[h], "pinch")]_vars

\* The left hand, whose pinch and open-palm had started at 20 mm, was
\* evaluated with its tips 50 mm apart: pinch ended, open-palm was updated.
PinchScenarioWitness ==
  /\ outcome = "evaluated"
  /\ options.gestures = GesturesEnabled(GestureNames)
  /\ options.minimumConfidence = <<1, 2>>
  /\ hands.pose["left"] = "open"
  /\ ThumbIndexDistances["open"] = R(50)
  /\ ThumbIndexDistances["pinch"] = R(20)
  /\ Len(EventsOfHand(events, "left")) = 2
  /\ EventsOfPair(events, "left", "pinch") = <<GestureEnd("pinch", "left")>>
  /\ EventTypes(EventsOfPair(events, "left", "open-palm")) = {"gestureupdate"}

\* C21 (no result without the wrist): called on a context that lacks the
\* wrist, the fist, open-palm, point and thumbs-up detectors return no
\* result, not a result of confidence 0, whatever the other joints and the
\* shape of the hand are.
NoWristNoResult ==
  (/\ bench.measured
   /\ "wrist" \in bench.gone
   /\ bench.name \in {"fist", "open-palm", "point", "thumbs-up"})
    => /\ ~bench.result.ok
       /\ bench.result = NoResult

\* The fist detector, which scores the whole open hand 0, returned no result
\* once the wrist alone was gone.
NoWristWitness ==
  /\ bench.measured
  /\ bench.name = "fist"
  /\ bench.gone = {"wrist"}
  /\ bench.shape = <<100, 150, 160, 150, 130>>
  /\ BenchResults[bench.shape][{}]["fist"][bench.gestures["fist"]].ok
  /\ BenchResults[bench.shape][{}]["fist"][bench.gestures["fist"]].confidence
       = R(0)
  /\ ~bench.result.ok

\* C22 (missing required joints): a detector called on a context that lacks
\* any one of the joints the detector table requires of it returns no result:
\* pinch requires thumb tip and index tip; open-palm and fist the wrist and
\* the five finger tips; thumbs-up the wrist, the thumb tip and the four
\* other tips; point the wrist, index tip, thumb tip and the remaining tips;
\* spread the five finger tips.
RequiredJointsGiveResult ==
  LET tips == {FingerTipNames[i] : i \in DOMAIN FingerTipNames}
      required ==
        CASE bench.name = "pinch" -> {"thumb-tip", "index-finger-tip"}
          [] bench.name = "spread" -> tips
          [] OTHER -> {"wrist"} \cup tips
  IN  (bench.measured /\ required \cap bench.gone # {}) => ~bench.result.ok

\* C23 (thresholds): a detector's result turns on the threshold of its own
\* gesture configuration, or, without one, on the default: pinch 30, fist 45,
\* open-palm 75, point 70, spread 50 mm. The pinch is within the threshold
\* (it carries its distance) exactly up to it; open-palm and spread score 0
\* exactly up to it, fist exactly from it on; the index part of point and,
\* under a configured threshold, the thumb part of thumbs-up are 0 exactly up
\* to it. A configuration that states the default gives the result of no
\* threshold, and replacing the configuration of another gesture leaves the
\* result as it is.
ThresholdsApply ==
  /\ [](bench.measured /\ bench.result.ok =>
          LET config == bench.gestures[bench.name]
              confidence == bench.result.confidence
              threshold ==
                IF config.hasThreshold THEN R(config.threshold)
                ELSE CASE bench.name = "pinch" -> R(30)
                       [] bench.name = "fist" -> R(45)
                       [] bench.name = "open-palm" -> R(75)
                       [] bench.name = "point" -> R(70)
                       [] bench.name = "spread" -> R(50)
                       [] OTHER -> R(0)
          IN  CASE bench.name = "pinch" ->
                     bench.result.data # NoData
                       <=> RGe(threshold, R(Abs(bench.shape[1] - bench.shape[2])))
                [] bench.name = "open-palm" ->
                     confidence = R(0)
                       <=> RGe(threshold, DataOf(bench.result, "averageDistance"))
                [] bench.name = "spread" ->
                     confidence = R(0)
                       <=> RGe(threshold, DataOf(bench.result, "averageDistance"))
                [] bench.name = "fist" ->
                     confidence = R(0)
                       <=> RGe(DataOf(bench.result, "averageDistance"), threshold)
                [] bench.name = "point" ->
                     confidence
                         = RMul(<<3, 10>>,
                                CurlScore(DataOf(bench.result, "averageOthers")))
                       <=> RGe(threshold, DataOf(bench.result, "indexDistance"))
                [] bench.name = "thumbs-up" ->
                     config.hasThreshold =>
                       (confidence
                          = RAdd(RMul(<<35, 100>>,
                                      CurlScore(DataOf(bench.result,
                                                       "averageOther"))),
                                 RMul(<<15, 100>>,
                                      Clamp(RDiv(DataOf(bench.result,
                                                        "thumbVertical"),
                                                 R(60)), R(0), R(1))))
                        <=> RGe(threshold, DataOf(bench.result, "thumbDistance"))))
  /\ [][(/\ bench.measured /\ bench'.measured
         /\ bench'.name = bench.name
         /\ bench'.shape = bench.shape
         /\ bench'.gone = bench.gone
         /\ \/ bench'.gestures[bench.name] = bench.gestures[bench.name]
            \/ /\ bench.name # "thumbs-up"
               /\ {bench.gestures[bench.name], bench'.gestures[bench.name]}
                    = {GestureOn, GestureAt(DefaultThreshold(bench.name))})
          => bench'.result = bench.result]_vars

\* With its threshold configured to 15 mm the pinch detector scored a hand
\* whose tips are 20 mm apart as beyond the threshold, which under the
\* default is within it.
ThresholdsWitness ==
  /\ bench.measured
  /\ bench.name = "pinch"
  /\ bench.gone = {}
  /\ Abs(bench.shape[1] - bench.shape[2]) = 20
  /\ bench.gestures["pinch"] = GestureAt(15)
  /\ bench.result.ok
  /\ bench.result.data = NoData
  /\ BenchResults[bench.shape][{}]["pinch"][GestureOn].data # NoData

\* C24 (open-palm and fist ramps): under one threshold the open-palm
\* confidence is 0 when the mean distance of the finger tips from the wrist
\* is at most the threshold and, when the hand changes, does not fall while
\* the mean distance does not fall; the fist confidence is 0 when the mean
\* distance is at least the threshold and does not rise while the mean
\* distance does not fall; both lie between 0 and 1.
PalmAndFistRamps ==
  /\ []((bench.measured /\ bench.result.ok
           /\ bench.name \in {"open-palm", "fist"}) =>
          LET config == bench.gestures[bench.name]
              threshold ==
                IF config.hasThreshold THEN R(config.threshold)
                ELSE IF bench.name = "fist" THEN R(45) ELSE R(75)
              mean == MeanTipDistance(bench.shape, bench.gone)
              confidence == bench.result.confidence
          IN  /\ RGe(confidence, R(0)) /\ RGe(R(1), confidence)
              /\ bench.name = "open-palm" /\ RGe(threshold, mean)
                   => confidence = R(0)
              /\ bench.name = "fist" /\ RGe(mean, threshold)
                   => confidence = R(0))
  /\ [][(/\ bench.measured /\ bench.result.ok
         /\ bench'.measured /\ bench'.result.ok
         /\ bench.name \in {"open-palm", "fist"}
         /\ bench'.name = bench.name
         /\ bench'.gestures[bench.name] = bench.gestures[bench.name])
          => LET before == MeanTipDistance(bench.shape, bench.gone)
                 after == MeanTipDistance(bench'.shape, bench'.gone)
                 rose == RGe(bench'.result.confidence, bench.result.confidence)
                 fell == RGe(bench.result.confidence, bench'.result.confidence)
             IN  /\ RGe(after, before)
                      => IF bench.name = "open-palm" THEN rose ELSE fell
                 /\ RGe(before, after)
                      => IF bench.name = "open-palm" THEN fell ELSE rose]_vars

\* The fist detector scored a hand whose tips are 30 mm from the wrist
\* between 0 and 1; under the same threshold a hand at 45 mm scores 0 and a
\* hand with a smaller mean distance scores more.
PalmAndFistWitness ==
  /\ bench.measured
  /\ bench.name = "fist"
  /\ bench.shape = <<30, 30, 30, 30, 30>>
  /\ bench.gone = {}
  /\ bench.gestures["fist"] = GestureOn
  /\ bench.result.ok
  /\ bench.result.confidence = <<1, 3>>
  /\ BenchResults[<<45, 45, 45, 45, 45>>][{}]["fist"][GestureOn].confidence = R(0)
  /\ BenchResults[<<20, 10, 10, 10, 10>>][{}]["fist"][GestureOn].confidence
       = <<11, 15>>

\* C25 (weighted blends): the thumbs-up confidence is 0.50 of the score of
\* the thumb being extended plus 0.35 of the score of the other fingers
\* being curled plus 0.15 of the score of the thumb being above the wrist,
\* the point confidence is 0.70 of the score of the index finger being
\* extended plus 0.30 of the score of the other fingers being curled; every
\* score and each confidence lies between 0 and 1, and a confidence is 1
\* only when all of its scores are 1.
WeightedBlends ==
  (bench.measured /\ bench.result.ok /\ bench.name \in {"thumbs-up", "point"}) =>
    LET config == bench.gestures[bench.name]
        confidence == bench.result.confidence
        thumbsUp == bench.name = "thumbs-up"
        threshold ==
          IF config.hasThreshold THEN R(config.threshold)
          ELSE IF thumbsUp THEN <<135, 2>> ELSE R(70)
        extended ==
          ExtendedScore(R(Abs(bench.shape[IF thumbsUp THEN 1 ELSE 2])),
                        threshold)
        curled ==
          CurlScore(MeanTipDistance(
                      bench.shape,
                      bench.gone \cup (IF thumbsUp THEN {"thumb-tip"}
                                       ELSE {"thumb-tip", "index-finger-tip"})))
        orientation == Clamp(Ratio(bench.shape[1], 60), R(0), R(1))
    IN  /\ InUnit(extended) /\ InUnit(curled) /\ InUnit(orientation)
        /\ InUnit(confidence)
        /\ thumbsUp =>
             /\ confidence = RAdd(RAdd(RMul(<<50, 100>>, extended),
                                       RMul(<<35, 100>>, curled)),
                                  RMul(<<15, 100>>, orientation))
             /\ confidence = R(1)
                  => extended = R(1) /\ curled = R(1) /\ orientation = R(1)
        /\ ~thumbsUp =>
             /\ confidence = RAdd(RMul(<<70, 100>>, extended),
                                  RMul(<<30, 100>>, curled))
             /\ confidence = R(1) => extended = R(1) /\ curled = R(1)

\* The point detector scored a hand whose index tip is 150 mm from the wrist
\* and whose other fingers are curled to the wrist, under a threshold of
\* 100 mm and with the thumb tip absent: the index finger is 5/6 extended,
\* the others are fully curled. The same hand scores 1 under the default
\* threshold, and a hand with the thumb down scores thumbs-up without the
\* orientation part.
WeightedBlendsWitness ==
  /\ bench.measured
  /\ bench.name = "point"
  /\ bench.shape = <<30, 150, 0, 0, 0>>
  /\ bench.gone = {"thumb-tip"}
  /\ bench.gestures["point"] = GestureAt(100)
  /\ bench.result.ok
  /\ bench.result.confidence = <<53, 60>>
  /\ BenchResults[bench.shape][{}]["point"][GestureOn].confidence = R(1)
  /\ BenchResults[<<-120, 20, 20, 20, 20>>][{}]["thumbs-up"][GestureOn].confidence
       = <<1403, 1980>>

PooledContextIsFresh ==
  bench.built =>
    LET supplied ==
          IF HasJoints(bench.pose) THEN HandJoints(bench.pose)
          ELSE [j \in JointNames |-> Missing]
        side == IF bench.handLabel = "right" THEN 200 ELSE 0
    IN  IF \A j \in JointNames : supplied[j] = Missing
        THEN bench.context = NoContext
        ELSE /\ bench.context # NoContext
             /\ DOMAIN bench.context = JointNames
             /\ \A j \in JointNames :
                  IF supplied[j] = Missing THEN bench.context[j] = Missing
                  ELSE /\ bench.context[j]
                            = <<supplied[j][1] + side, supplied[j][2],
                                supplied[j][3]>>
                       /\ bench.context[j][1] # 200 - side

\* The map of the right hand held the wrist and the thumb tip of a fist from
\* an earlier call, the map of the left hand is filled too; the context
\* built now for the right hand, which is open and has no wrist, has no
\* wrist and the thumb tip where it is now.
PooledContextWitness ==
  /\ bench.built
  /\ bench.handLabel = "right"
  /\ bench.pose = "nowrist"
  /\ bench.before # NoCache
  /\ bench.before["wrist"] = <<200, 0, 0>>
  /\ bench.before["thumb-tip"] = <<200, 20, 0>>
  /\ bench.pool["left"] # NoCache
  /\ bench.pool["left"]["wrist"] = <<0, 0, 0>>
  /\ bench.context # NoContext
  /\ bench.context["wrist"] = Missing
  /\ bench.context["thumb-tip"] = <<200, 100, 0>>

\* C28 (only gestures with a detector are evaluated): a gesture that is
\* enabled in the configuration but has no registered detector is in no map
\* and in no event, and it changes nothing for the others: the maps and the
\* events of an evaluation are those of the same evaluation with that
\* gesture disabled.
OnlyRegisteredGesturesRun ==
  /\ [](/\ \A h \in Hands : NameSet(activeGestures[h]) \subseteq Detectors
        /\ \A i \in DOMAIN events : events[i].name \in Detectors)
  /\ [][IsEvaluation =>
          LET without ==
                [options EXCEPT
                   !.gestures =
                     [g \in GestureNames |->
                        IF g \in Detectors THEN options.gestures[g]
                        ELSE GestureOff]]
              left == EvaluateHand("left", activeGestures["left"],
                                   hands'.pose["left"], without)
              right == EvaluateHand("right", activeGestures["right"],
                                    hands'.pose["right"], without)
          IN  /\ activeGestures'
                   = [left |-> left.active, right |-> right.active]
              /\ events' = left.events \o right.events]_vars

\* An evaluation under a configuration that enables "wave", which has no
\* detector, started gestures on the open left hand and on the pinching
\* right hand; no event and no entry is one of "wave".
OnlyRegisteredWitness ==
  /\ outcome = "evaluated"
  /\ options.gestures["wave"].enabled
  /\ "wave" \notin Detectors
  /\ hands.pose["left"] = "open"
  /\ hands.pose["right"] = "pinch"
  /\ NameSet(activeGestures["left"]) = {"open-palm"}
  /\ "pinch" \in NameSet(activeGestures["right"])
  /\ Len(events) >= 2
  /\ \A i \in DOMAIN events : events[i].type = "gesturestart"

\* C29 (throttling cannot starve evaluation): the time of the last
\* evaluation changes only in an update() that evaluates, to the time of
\* that update(). So under a provider other than 'webxr' with
\* updateIntervalMs > 0 an update() with recognition enabled and valid hands
\* that comes updateIntervalMs or more after the last evaluation evaluates,
\* an update() that evaluates comes no less than updateIntervalMs after the
\* last one, and the two hands are evaluated in the same updates: an
\* update() that evaluates runs evaluateHand on both, any other leaves both
\* maps as they are.
ThrottlingCannotStarve ==
  [][/\ lastEvaluation' # lastEvaluation => IsEvaluation
     /\ IsEvaluation => lastEvaluation' = now'
     /\ (IsTick /\ ~IsEvaluation) => lastEvaluation' = lastEvaluation
     /\ (options.provider # "webxr" /\ options.updateIntervalMs > 0) =>
          /\ (/\ IsTick /\ options.enabled /\ hands'.valid
              /\ now' - lastEvaluation >= options.updateIntervalMs)
               => IsEvaluation
          /\ IsEvaluation => now' - lastEvaluation >= options.updateIntervalMs
     /\ IF IsEvaluation
        THEN \A h \in Hands :
               activeGestures'[h]
                 = EvaluateHand(h, activeGestures[h], hands'.pose[h],
                                options).active
        ELSE activeGestures' = activeGestures]_vars

\* Under provider 'mediapipe' with updateIntervalMs = 100 an update() at 100
\* ms evaluated both hands and the update() at 150 ms was throttled: the time
\* of the last evaluation is still 100 ms and both maps are as they were.
ThrottlingWitness ==
  /\ outcome = "throttled"
  /\ options.enabled
  /\ options.provider = "mediapipe"
  /\ options.updateIntervalMs = 100
  /\ now = 150
  /\ lastEvaluation = 100
  /\ hands.valid
  /\ activeGestures["left"] # <<>>
  /\ activeGestures["right"] # <<>>

\* C30 (event order within one update): the events of the left hand all come
\* before the events of the right hand; among the events of a tracked hand
\* those of the gestures that were evaluated come in the order of the
\* gesture configuration, and those of the gestures that were not evaluated,
\* being disabled, are gestureend events that come after all of them.
EventOrderIsFixed ==
  [][IsEvaluation =>
       LET rank(g) == CHOOSE i \in DOMAIN GestureOrder : GestureOrder[i] = g
           evaluated(g) == options.gestures[g].enabled /\ g \in Detectors
       IN  /\ \A i, j \in DOMAIN events' :
                (i < j /\ events'[i].hand = "right")
                  => events'[j].hand = "right"
           /\ \A h \in Hands :
                Tracked(hands'.pose[h]) =>
                  LET evs == EventsOfHand(events', h)
                  IN  \A i, j \in DOMAIN evs :
                        i < j =>
                          /\ (evaluated(evs[i].name) /\ evaluated(evs[j].name))
                               => rank(evs[i].name) < rank(evs[j].name)
                          /\ ~evaluated(evs[i].name)
                               => /\ ~evaluated(evs[j].name)
                                  /\ evs[i].type = "gestureend"
                          /\ ~evaluated(evs[j].name)
                               => evs[j].type = "gestureend"]_vars

\* One update() dispatched, in this order, the updates of pinch and fist on
\* the left hand and, on the right hand, the end of pinch, which was
\* evaluated, and then the end of open-palm, which is disabled.
EventOrderWitness ==
  /\ outcome = "evaluated"
  /\ ~options.gestures["open-palm"].enabled
  /\ Len(events) = 4
  /\ [i \in 1..4 |-> <<events[i].hand, events[i].name, events[i].type>>]
       = << <<"left", "pinch", "gestureupdate">>,
            <<"left", "fist", "gestureupdate">>,
            <<"right", "pinch", "gestureend">>,
            <<"right", "open-palm", "gestureend">> >>

\* C31 (global disable keeps gestures open): disabling recognition and every
\* update() taken while it is disabled dispatch nothing, no gestureend
\* either, and leave both maps as they are, and so does enabling it again;
\* an evaluation, the first one after recognition is enabled again included,
\* dispatches for every gesture it finds in a map exactly one event, a
\* gestureupdate if the gesture is still detected and a gestureend if it is
\* not or the hand has no pose, and never a gesturestart; the events of each
\* pair of hand and gesture keep alternating.
DisableKeepsGesturesOpen ==
  /\ [][/\ (~options.enabled \/ ~options'.enabled) =>
             /\ activeGestures' = activeGestures
             /\ events' = IF IsTick THEN <<>> ELSE events
             /\ openGestures' = openGestures
        /\ IsEvaluation =>
             \A h \in Hands : \A name \in NameSet(activeGestures[h]) :
               LET evs == EventsOfPair(events', h, name)
               IN  /\ Len(evs) = 1
                   /\ evs[1].type
                        = IF Detected(name, hands'.pose[h], options)
                          THEN "gestureupdate" ELSE "gestureend"]_vars
  /\ [](~lifecycleBroken /\ openGestures = ActiveEntries)

\* Recognition was disabled after the evaluation at 50 ms had started
\* gestures on both hands; the update() at 100 ms returned at once: both
\* maps still hold their gestures and a follower of the events still holds
\* them open.
DisableWitness ==
  /\ outcome = "disabled"
  /\ ~options.enabled
  /\ now = 100
  /\ lastEvaluation = 50
  /\ events = <<>>
  /\ activeGestures["left"] # <<>>
  /\ activeGestures["right"] # <<>>
  /\ openGestures = ActiveEntries
  /\ openGestures # {}

\* C32 (fist and open-palm exclude each other): after an evaluation under
\* the default thresholds of fist and open-palm and a minimumConfidence above
\* 0, no hand has both 'fist' and 'open-palm' in its map; on no hand, whatever
\* its shape and whatever joints it lacks, do both detectors report more
\* than 0.
FistExcludesOpenPalm ==
  /\ (/\ outcome = "evaluated"
      /\ ~options.gestures["fist"].hasThreshold
      /\ ~options.gestures["open-palm"].hasThreshold
      /\ RGt(options.minimumConfidence, R(0)))
       => \A h \in Hands :
            ~({"fist", "open-palm"} \subseteq NameSet(activeGestures[h]))
  /\ NeverBothAboveZero

\* An evaluation with both gestures enabled at their defaults found the
\* fist on the left hand and the open palm on the right hand, each without
\* the other.
FistExcludesWitness ==
  /\ outcome = "evaluated"
  /\ options.gestures["fist"] = GestureOn
  /\ options.gestures["open-palm"] = GestureOn
  /\ RGt(options.minimumConfidence, R(0))
  /\ hands.pose["left"] = "fist"
  /\ "fist" \in NameSet(activeGestures["left"])
  /\ "open-palm" \notin NameSet(activeGestures["left"])
  /\ "open-palm" \in NameSet(activeGestures["right"])
  /\ "fist" \notin NameSet(activeGestures["right"])

\* C33 (the overlay system is started at most once and never without a
\* camera): over every sequence of constructions of a WebView and calls of
\* WebView.initialize, at most one renderer is created, with one DOM
\* element, one resize listener and one render loop; there is none unless
\* initialize has been given a camera; every constructed view is in the
\* list of instances, and a frame of the running render loop synchronises
\* all of them, those constructed before the start and those constructed
\* after it.
OverlayStartsOnce ==
  /\ bench.renderers <= 1
  /\ bench.domElements = bench.renderers
  /\ bench.resizeListeners = bench.renderers
  /\ bench.loops = bench.renderers
  /\ bench.cssRenderer <=> bench.renderers = 1
  /\ bench.cssRenderer => bench.supplied
  /\ bench.built = {bench.instances[i] : i \in DOMAIN bench.instances}
  /\ Cardinality(bench.built) = Len(bench.instances)
  /\ (bench.lastCall = "frame" /\ bench.cameraRef # NoCamera)
       => /\ bench.synced = bench.built
          /\ bench.renderedWith = bench.cameraRef

\* One view was constructed before initialize was given a camera and two
\* after it; initialize was called again with another camera; there is one
\* renderer, and the last frame synchronised all three views.
OverlayWitness ==
  /\ bench.renderers = 1
  /\ bench.viewsAtStart = 1
  /\ Len(bench.instances) = 3
  /\ bench.lastCall = "frame"
  /\ bench.synced = {1, 2, 3}
  /\ bench.cameraRef = "camera-b"
  /\ bench.renderedWith = "camera-b"

====
